---------------------------- MODULE Spec2Model ----------------------------
(***************************************************************************)
(* A model of godns: the DNS wire codec (package dns) and the iterative    *)
(* resolver of main.go.                                                    *)
(*                                                                         *)
(* Bytes are the integers 0..255, strings are sequences of bytes (46 is    *)
(* the dot), a BytePacketBuffer is a record [Buf, Pos] whose Buf is a      *)
(* function on 0..BufSize-1.  A Go error value is modelled by its text;    *)
(* Nil is the nil error and Panic is the run-time panic that an            *)
(* out-of-range array index raises (it is not an error value: it unwinds   *)
(* the goroutine and, with no recover in the program, ends the process).   *)
(***************************************************************************)
EXTENDS Integers, Sequences, FiniteSets, TLC

VARIABLES
    qn,         \* the frame of a running readQname: buffer, locals, result
    lay,        \* how the bytes of qn's buffer were laid out (history)
    packet,     \* the DnsPacket being built, then the packet after Write
    wire,       \* the BytePacketBuffer written by Write or filled by a receive
    wres,       \* "none", "received", or what Write returned (Nil, an error, Panic)
    dec,        \* what DnsPacketFromBuffer(wire) returned, NoDecode before
    stack,      \* the running recursiveLookup calls, the innermost last
    sent,       \* the queries lookup has sent so far, in order (history)
    outcome,    \* what the outermost recursiveLookup returned, or the exit
    failure,    \* the step of lookup that failed, "none" while none did
    rin,        \* a record and the cursor it is encoded at
    enc,        \* what WriteDnsRecord made of rin, NoEncode before
    rdec,       \* what ReadDnsRecord made of the bytes of enc, NoRecord before
    renc,       \* what WriteDnsRecord made of the record of rdec
    nsin,       \* a reply and a query name handed to the nameserver queries
    nsout,      \* what getNs, GetResolvedNs and GetUnresolvedNS returned
    srv,        \* the server: where main stands, the request in hand, the
                \* last thing handleQuery did
    sock        \* the outbound sockets lookup holds open, and its position

qnameVars == <<qn, lay>>
codecVars == <<packet, wire, wres, dec>>
resolverVars == <<stack, sent, outcome, failure>>
recordVars == <<rin, enc, rdec, renc>>
nsVars == <<nsin, nsout>>
serverVars == <<srv, sock>>
vars == <<qn, lay, packet, wire, wres, dec, stack, sent, outcome, failure,
          rin, enc, rdec, renc, nsin, nsout, srv, sock>>

Idle == "idle"
NoDecode == [p |-> Idle, err |-> "none", Pos |-> 0]

-----------------------------------------------------------------------------
(* Constants of the program *)

BufSize == 512
maxJumps == 5

Nil == "nil"
ErrEndOfBuffer == "end of buffer"
ErrJumps == "limit of 5 jumps exceeded"
ErrLabel == "single label exceeds 63 characters of length"
ErrUnknownRecord == "unknown record type"
Panic == "panic: index out of range"

-----------------------------------------------------------------------------
(* BytePacketBuffer *)

ZeroBuf == [i \in 0..(BufSize - 1) |-> 0]

NewBytePacketBuffer == [Buf |-> ZeroBuf, Pos |-> 0]

\* step and seek return nil whatever the position is.
\* The cursor is left where it was.
stepNowhere(b, steps) == b

step(b, steps) == [b EXCEPT !.Pos = @ + steps]

seek(b, pos) == [b EXCEPT !.Pos = pos]

read(b) ==
    IF b.Pos >= BufSize
    THEN [b |-> b, err |-> ErrEndOfBuffer, val |-> 0]
    ELSE [b |-> [b EXCEPT !.Pos = @ + 1], err |-> Nil, val |-> b.Buf[b.Pos]]

\* Buf[pos] with pos < 0 is a run-time panic in Go.
get(b, pos) ==
    IF pos >= BufSize THEN [err |-> ErrEndOfBuffer, val |-> 0]
    ELSE IF pos < 0 THEN [err |-> Panic, val |-> 0]
    ELSE [err |-> Nil, val |-> b.Buf[pos]]

GetRange(b, start, length) ==
    IF start + length >= BufSize THEN [err |-> ErrEndOfBuffer, val |-> <<>>]
    ELSE IF start < 0 \/ length < 0 THEN [err |-> Panic, val |-> <<>>]
    ELSE [err |-> Nil, val |-> [i \in 1..length |-> b.Buf[start + i - 1]]]

\* Bind(v, K) is K(v) with v evaluated once: the result of one call handed to
\* the code that follows it.
Bind(v, K(_)) == CHOOSE out \in { K(x) : x \in {v} } : TRUE

readU16(b) ==
    Bind(read(b), LAMBDA r1 :
    IF r1.err # Nil THEN [b |-> r1.b, err |-> r1.err, val |-> 0] ELSE
    Bind(read(r1.b), LAMBDA r2 :
    IF r2.err # Nil THEN [b |-> r2.b, err |-> r2.err, val |-> 0] ELSE
    [b |-> r2.b, err |-> Nil, val |-> r1.val * 256 + r2.val]))

\* A uint32 is held as its four base-256 digits <<d1, d2, d3, d4>>, most
\* significant first: (b1 << 24) | (b2 << 16) | (b3 << 8) | b4 has the digits
\* b1..b4, and (v >> 8k) & 0xFF is digit 4 - k.
U32Zero == <<0, 0, 0, 0>>

readU32(b) ==
    Bind(read(b), LAMBDA r1 :
    IF r1.err # Nil THEN [b |-> r1.b, err |-> r1.err, val |-> U32Zero] ELSE
    Bind(read(r1.b), LAMBDA r2 :
    IF r2.err # Nil THEN [b |-> r2.b, err |-> r2.err, val |-> U32Zero] ELSE
    Bind(read(r2.b), LAMBDA r3 :
    IF r3.err # Nil THEN [b |-> r3.b, err |-> r3.err, val |-> U32Zero] ELSE
    Bind(read(r3.b), LAMBDA r4 :
    IF r4.err # Nil THEN [b |-> r4.b, err |-> r4.err, val |-> U32Zero] ELSE
    [b |-> r4.b, err |-> Nil, val |-> <<r1.val, r2.val, r3.val, r4.val>>]))))

\* A byte left in the case it has.
KeepCaseByte(c) == c

\* strings.ToLower on ASCII bytes (the model's strings hold bytes below 128).
ToLowerByte(c) == IF c >= 65 /\ c <= 90 THEN c + 32 ELSE c

ToLower(s) == [i \in 1..Len(s) |-> ToLowerByte(s[i])]

-----------------------------------------------------------------------------
(* readQname: the frame when the loop is entered, one iteration of the     *)
(* loop, and the loop run to its end.  status is "loop" while the loop     *)
(* runs and the returned error (Nil on success) afterwards.                *)

readQnameEnter(b) ==
    [b |-> b, pos |-> b.Pos, jumped |-> FALSE, jumpsPerformed |-> 0,
     delim |-> <<>>, outstr |-> <<>>, status |-> "loop"]

\* The jump without its count: jumpsPerformed is left as it was.
FollowPointerUncounted(st, offset) ==
    [st EXCEPT !.pos = offset, !.jumped = TRUE]

\* pos = int(offset); jumped = true; jumpsPerformed += 1; continue
FollowPointer(st, offset) ==
    [st EXCEPT !.pos = offset, !.jumped = TRUE, !.jumpsPerformed = @ + 1]

\* The limit hit one jump early.
JumpLimitReached(st) == st.jumpsPerformed >= maxJumps

\* if jumpsPerformed > maxJumps: the test at the top of every iteration.
JumpLimitExceeded(st) == st.jumpsPerformed > maxJumps

\* The cursor moved past every pointer met, not only the first.
SeekPastEveryPointer(st) == seek(st.b, st.pos + 2)

\* if !jumped { bpb.seek(pos + 2) }
SeekPastPointer(st) == IF ~st.jumped THEN seek(st.b, st.pos + 2) ELSE st.b

\* (len & 0xC0) == 0xC0 holds of a byte exactly when it is at least 192, and
\* then len ^ 0xC0 is len - 192.
readQnameIter(st) ==
    IF JumpLimitExceeded(st) THEN [st EXCEPT !.status = ErrJumps] ELSE
    LET len == get(st.b, st.pos) IN
    IF len.err # Nil THEN [st EXCEPT !.status = len.err] ELSE
    IF len.val >= 192
    THEN LET b1 == SeekPastPointer(st)
             b2 == get(b1, st.pos + 1)
         IN  IF b2.err # Nil
             THEN [st EXCEPT !.b = b1, !.status = b2.err]
             ELSE FollowPointer([st EXCEPT !.b = b1],
                                (len.val - 192) * 256 + b2.val)
    ELSE IF len.val = 0
    THEN [st EXCEPT !.pos = @ + 1,
                    !.b = IF ~st.jumped THEN seek(st.b, st.pos + 1) ELSE st.b,
                    !.status = Nil]
    ELSE LET strBuffer == GetRange(st.b, st.pos + 1, len.val) IN
         IF strBuffer.err # Nil
         THEN [st EXCEPT !.pos = @ + 1,
                         !.outstr = @ \o st.delim,
                         !.status = strBuffer.err]
         ELSE [st EXCEPT !.pos = @ + 1 + len.val,
                         !.outstr = @ \o st.delim \o ToLower(strBuffer.val),
                         !.delim = <<46>>]

RECURSIVE readQnameLoop(_)
readQnameLoop(st) ==
    IF st.status # "loop" THEN st
    ELSE Bind(readQnameIter(st), LAMBDA st1 : readQnameLoop(st1))

readQname(b) ==
    Bind(readQnameLoop(readQnameEnter(b)), LAMBDA st :
    [b |-> st.b, err |-> st.status, val |-> st.outstr])

-----------------------------------------------------------------------------
(* Sequential writes and random-access patches *)

write(b, val) ==
    IF b.Pos >= BufSize
    THEN [b |-> b, err |-> ErrEndOfBuffer]
    ELSE [b |-> [b EXCEPT !.Buf[b.Pos] = val, !.Pos = @ + 1], err |-> Nil]

writeU8(b, val) == write(b, val)

writeU16(b, val) ==
    Bind(write(b, (val \div 256) % 256), LAMBDA r1 :
    IF r1.err # Nil THEN r1 ELSE write(r1.b, val % 256))

writeU32(b, val) ==
    Bind(write(b, val[1]), LAMBDA r1 :
    IF r1.err # Nil THEN r1 ELSE
    Bind(write(r1.b, val[2]), LAMBDA r2 :
    IF r2.err # Nil THEN r2 ELSE
    Bind(write(r2.b, val[3]), LAMBDA r3 :
    IF r3.err # Nil THEN r3 ELSE write(r3.b, val[4]))))

\* strings.Split(qname, "."): one label more than there are dots, label k
\* lying between dot k-1 and dot k; "" splits into one empty label.
SplitAtDots(s, dots) ==
    LET n == Cardinality(dots)
        Dot(k) == IF k = 0 THEN 0
                  ELSE IF k = n + 1 THEN Len(s) + 1
                  ELSE CHOOSE i \in dots : Cardinality({j \in dots : j <= i}) = k
    IN [k \in 1..(n + 1) |-> SubSeq(s, Dot(k - 1) + 1, Dot(k) - 1)]

Split(s) ==
    Bind(s, LAMBDA v :
    Bind({i \in 1..Len(v) : v[i] = 46}, LAMBDA dots : SplitAtDots(v, dots)))

\* for _, b := range []byte(label) { writeU8(b) }, stopping at the first
\* error: the k bytes that fit before position 512 are stored, and the
\* loop fails with write's error when the label is longer than that.
writeLabelBytesAt(b, label, k) ==
    [b |-> [Buf |-> [j \in 0..(BufSize - 1) |->
                        IF j >= b.Pos /\ j < b.Pos + k
                        THEN label[j - b.Pos + 1] ELSE b.Buf[j]],
            Pos |-> b.Pos + k],
     err |-> IF k < Len(label) THEN ErrEndOfBuffer ELSE Nil]

writeLabelBytes(b, label) ==
    Bind(b, LAMBDA b0 : Bind(label, LAMBDA l0 :
        IF b0.Pos + Len(l0) <= BufSize THEN writeLabelBytesAt(b0, l0, Len(l0))
        ELSE IF b0.Pos >= BufSize THEN writeLabelBytesAt(b0, l0, 0)
        ELSE Bind(BufSize - b0.Pos, LAMBDA k : writeLabelBytesAt(b0, l0, k))))

\* for _, label := range strings.Split(qname, "."): labels i..Len(labels)
RECURSIVE writeLabels(_, _, _)
writeLabels(b, labels, i) ==
    IF i > Len(labels) THEN [b |-> b, err |-> Nil] ELSE
    IF Len(labels[i]) > 63 THEN [b |-> b, err |-> ErrLabel] ELSE
    Bind(writeU8(b, Len(labels[i])), LAMBDA r1 :
    IF r1.err # Nil THEN r1 ELSE
    Bind(writeLabelBytes(r1.b, labels[i]), LAMBDA r2 :
    IF r2.err # Nil THEN r2 ELSE writeLabels(r2.b, labels, i + 1)))

writeQname(b, qname) ==
    Bind(Split(qname), LAMBDA labels :
    Bind(writeLabels(b, labels, 1), LAMBDA r :
    IF r.err # Nil THEN r ELSE writeU8(r.b, 0)))

\* The patch left out: the bytes at pos stay as they were written.
setU16Skipped(b, pos, val) == [b |-> b, err |-> Nil]

\* bpb.Buf[pos] = val: Go checks the index and panics outside 0..511.
set(b, pos, val) ==
    IF pos < 0 \/ pos >= BufSize
    THEN [b |-> b, err |-> Panic]
    ELSE [b |-> [b EXCEPT !.Buf[pos] = val], err |-> Nil]

setU16(b, pos, val) ==
    Bind(set(b, pos, (val \div 256) % 256), LAMBDA r1 :
    IF r1.err # Nil THEN r1 ELSE set(r1.b, pos + 1, val % 256))

-----------------------------------------------------------------------------
(* QueryType *)

QueryTypeFromNum(num) ==
    CASE num = 1 -> "A"
      [] num = 2 -> "NS"
      [] num = 5 -> "CNAME"
      [] num = 15 -> "MX"
      [] num = 28 -> "AAAA"
      [] OTHER -> "UNKNOWN"

ToNum(qt) ==
    CASE qt = "A" -> 1
      [] qt = "NS" -> 2
      [] qt = "CNAME" -> 5
      [] qt = "MX" -> 15
      [] qt = "AAAA" -> 28
      [] OTHER -> 0

-----------------------------------------------------------------------------
(* DnsHeader.  opcode and Rescode are 4-bit values (0..15) in every header *)
(* the program builds or decodes, so the bitwise ors of write add up.      *)

boolToUint(x) == IF x THEN 1 ELSE 0

NewDnsHeader ==
    [Id |-> 0, RecursionDesired |-> FALSE, truncatedMessage |-> FALSE,
     authoritativeAnswer |-> FALSE, opcode |-> 0, Response |-> FALSE,
     Rescode |-> 0, checkingDisabled |-> FALSE, authedData |-> FALSE,
     z |-> FALSE, RecursionAvailable |-> FALSE,
     Questions |-> 0, answers |-> 0, authoritativeEntries |-> 0,
     resourceEntries |-> 0]

HeaderRead(header, buffer) ==
    Bind(readU16(buffer), LAMBDA id :
    IF id.err # Nil THEN [h |-> header, b |-> id.b, err |-> id.err] ELSE
    Bind([header EXCEPT !.Id = id.val], LAMBDA h1 :
    Bind(readU16(id.b), LAMBDA flags :
    IF flags.err # Nil THEN [h |-> h1, b |-> flags.b, err |-> flags.err] ELSE
    LET a == flags.val \div 256
        f == flags.val % 256
    IN
    Bind([h1 EXCEPT !.RecursionDesired = (a % 2) > 0,
                    !.truncatedMessage = ((a \div 2) % 2) > 0,
                    !.authoritativeAnswer = ((a \div 4) % 2) > 0,
                    !.opcode = (a \div 8) % 16,
                    !.Response = (a \div 128) > 0,
                    !.Rescode = f % 16,
                    !.checkingDisabled = ((f \div 16) % 2) > 0,
                    !.authedData = ((f \div 32) % 2) > 0,
                    !.z = ((f \div 64) % 2) > 0,
                    !.RecursionAvailable = (f \div 128) > 0], LAMBDA h2 :
    Bind(readU16(flags.b), LAMBDA qd :
    IF qd.err # Nil THEN [h |-> h2, b |-> qd.b, err |-> qd.err] ELSE
    Bind([h2 EXCEPT !.Questions = qd.val], LAMBDA h3 :
    Bind(readU16(qd.b), LAMBDA an :
    IF an.err # Nil THEN [h |-> h3, b |-> an.b, err |-> an.err] ELSE
    Bind([h3 EXCEPT !.answers = an.val], LAMBDA h4 :
    Bind(readU16(an.b), LAMBDA ns :
    IF ns.err # Nil THEN [h |-> h4, b |-> ns.b, err |-> ns.err] ELSE
    Bind([h4 EXCEPT !.authoritativeEntries = ns.val], LAMBDA h5 :
    Bind(readU16(ns.b), LAMBDA ar :
    IF ar.err # Nil THEN [h |-> h5, b |-> ar.b, err |-> ar.err] ELSE
    [h |-> [h5 EXCEPT !.resourceEntries = ar.val], b |-> ar.b, err |-> Nil]
    )))))))))))

HeaderWrite(h, buffer) ==
    LET flags1 == boolToUint(h.RecursionDesired)
                    + boolToUint(h.truncatedMessage) * 2
                    + boolToUint(h.authoritativeAnswer) * 4
                    + h.opcode * 8
                    + boolToUint(h.Response) * 128
        flags2 == h.Rescode
                    + boolToUint(h.checkingDisabled) * 16
                    + boolToUint(h.authedData) * 32
                    + boolToUint(h.z) * 64
                    + boolToUint(h.RecursionAvailable) * 128
    IN
    Bind(writeU16(buffer, h.Id), LAMBDA r1 :
    IF r1.err # Nil THEN r1 ELSE
    Bind(writeU8(r1.b, flags1), LAMBDA r2 :
    IF r2.err # Nil THEN r2 ELSE
    Bind(writeU8(r2.b, flags2), LAMBDA r3 :
    IF r3.err # Nil THEN r3 ELSE
    Bind(writeU16(r3.b, h.Questions), LAMBDA r4 :
    IF r4.err # Nil THEN r4 ELSE
    Bind(writeU16(r4.b, h.answers), LAMBDA r5 :
    IF r5.err # Nil THEN r5 ELSE
    Bind(writeU16(r5.b, h.authoritativeEntries), LAMBDA r6 :
    IF r6.err # Nil THEN r6 ELSE writeU16(r6.b, h.resourceEntries)))))))

-----------------------------------------------------------------------------
(* DnsQuestion: [Name, Qtype], Qtype the raw 16-bit number *)

newDnsQuestion(name, qtype) == [Name |-> name, Qtype |-> qtype]

\* readQname appends to dq.Name, which is "" in a new question.
QuestionRead(dq, buffer) ==
    Bind(readQname(buffer), LAMBDA n :
    Bind([dq EXCEPT !.Name = @ \o n.val], LAMBDA q1 :
    IF n.err # Nil THEN [q |-> q1, b |-> n.b, err |-> n.err] ELSE
    Bind(readU16(n.b), LAMBDA qtypeNum :
    IF qtypeNum.err # Nil THEN [q |-> q1, b |-> qtypeNum.b, err |-> qtypeNum.err] ELSE
    Bind(readU16(qtypeNum.b), LAMBDA class :
    [q |-> [q1 EXCEPT !.Qtype = qtypeNum.val], b |-> class.b, err |-> class.err]))))

QuestionWrite(dq, buffer) ==
    Bind(writeQname(buffer, dq.Name), LAMBDA r1 :
    IF r1.err # Nil THEN r1 ELSE
    Bind(writeU16(r1.b, dq.Qtype), LAMBDA r2 :
    IF r2.err # Nil THEN r2 ELSE writeU16(r2.b, 1)))

-----------------------------------------------------------------------------
(* DnsRecord: a record [kind, ...] whose kind is the Go type of the value  *)
(* held by the interface: "A", "AAAA", "NS", "CNAME", "MX", "Unknown".     *)
(* Addr is a net.IP, a byte sequence.                                      *)

NilRecord == [kind |-> "nil"]

\* net.IP.To4: the 4-byte form of a 4-byte or IPv4-mapped 16-byte address,
\* nil (the empty slice) otherwise.
To4(ip) ==
    IF Len(ip) = 4 THEN ip
    ELSE IF Len(ip) = 16 /\ (\A i \in 1..10 : ip[i] = 0) /\ ip[11] = 255 /\ ip[12] = 255
         THEN SubSeq(ip, 13, 16)
    ELSE <<>>

\* net.IP.To16: the 16-byte form of a 4-byte or 16-byte address, nil otherwise.
To16(ip) ==
    IF Len(ip) = 4 THEN <<0, 0, 0, 0, 0, 0, 0, 0, 0, 0, 255, 255>> \o ip
    ELSE IF Len(ip) = 16 THEN ip
    ELSE <<>>

\* The switch of ReadDnsRecord, entered after the preamble was read.
ReadDnsRecordData(buffer, domain, qtypeNum, ttl, dataLen) ==
    LET Fail(r) == [rec |-> NilRecord, b |-> r.b, err |-> r.err]
        qtype == QueryTypeFromNum(qtypeNum)
    IN
    CASE qtype = "A" ->
            Bind(readU32(buffer), LAMBDA rawAddr :
            IF rawAddr.err # Nil THEN Fail(rawAddr) ELSE
            [rec |-> [kind |-> "A", Domain |-> domain,
                      Addr |-> << rawAddr.val[1], rawAddr.val[2],
                                  rawAddr.val[3], rawAddr.val[4] >>,
                      TTL |-> ttl],
             b |-> rawAddr.b, err |-> Nil])
      [] qtype = "AAAA" ->
            Bind(readU32(buffer), LAMBDA rawAddr1 :
            IF rawAddr1.err # Nil THEN Fail(rawAddr1) ELSE
            Bind(readU32(rawAddr1.b), LAMBDA rawAddr2 :
            IF rawAddr2.err # Nil THEN Fail(rawAddr2) ELSE
            Bind(readU32(rawAddr2.b), LAMBDA rawAddr3 :
            IF rawAddr3.err # Nil THEN Fail(rawAddr3) ELSE
            Bind(readU32(rawAddr3.b), LAMBDA rawAddr4 :
            IF rawAddr4.err # Nil THEN Fail(rawAddr4) ELSE
            \* byte((raw >> 16) & 0xFFFF) is digit 2, byte(raw & 0xFFFF) digit 4
            [rec |-> [kind |-> "AAAA", Domain |-> domain,
                      Addr |-> << rawAddr1.val[2], rawAddr1.val[4],
                                  rawAddr2.val[2], rawAddr2.val[4],
                                  rawAddr3.val[2], rawAddr3.val[4],
                                  rawAddr4.val[2], rawAddr4.val[4] >>,
                      TTL |-> ttl],
             b |-> rawAddr4.b, err |-> Nil]))))
      [] qtype = "NS" ->
            Bind(readQname(buffer), LAMBDA ns :
            IF ns.err # Nil THEN Fail(ns) ELSE
            [rec |-> [kind |-> "NS", Domain |-> domain, Host |-> ns.val, TTL |-> ttl],
             b |-> ns.b, err |-> Nil])
      [] qtype = "CNAME" ->
            Bind(readQname(buffer), LAMBDA cname :
            IF cname.err # Nil THEN Fail(cname) ELSE
            [rec |-> [kind |-> "NS", Domain |-> domain, Host |-> cname.val, TTL |-> ttl],
             b |-> cname.b, err |-> Nil])
      [] qtype = "MX" ->
            Bind(readU16(buffer), LAMBDA priority :
            IF priority.err # Nil THEN Fail(priority) ELSE
            Bind(readQname(priority.b), LAMBDA mx :
            IF mx.err # Nil THEN Fail(mx) ELSE
            [rec |-> [kind |-> "MX", Domain |-> domain, Priority |-> priority.val,
                      Host |-> mx.val, TTL |-> ttl],
             b |-> mx.b, err |-> Nil]))
      [] OTHER ->
            [rec |-> [kind |-> "Unknown", Domain |-> domain, QType |-> qtypeNum,
                      DataLen |-> dataLen, TTL |-> ttl],
             b |-> step(buffer, dataLen), err |-> Nil]

ReadDnsRecord(buffer) ==
    LET Fail(r) == [rec |-> NilRecord, b |-> r.b, err |-> r.err] IN
    Bind(readQname(buffer), LAMBDA domain :
    IF domain.err # Nil THEN Fail(domain) ELSE
    Bind(readU16(domain.b), LAMBDA qtypeNum :
    IF qtypeNum.err # Nil THEN Fail(qtypeNum) ELSE
    Bind(readU16(qtypeNum.b), LAMBDA class :
    IF class.err # Nil THEN Fail(class) ELSE
    Bind(readU32(class.b), LAMBDA ttl :
    IF ttl.err # Nil THEN Fail(ttl) ELSE
    Bind(readU16(ttl.b), LAMBDA dataLen :
    IF dataLen.err # Nil THEN Fail(dataLen) ELSE
    ReadDnsRecordData(dataLen.b, domain.val, qtypeNum.val, ttl.val, dataLen.val))))))

\* The preamble the A, NS, MX and AAAA cases write with every error dropped:
\* domain, type, class 1, TTL.  The value is the buffer afterwards.
WritePreambleUnchecked(buffer, domain, typeNum, ttl) ==
    Bind(writeQname(buffer, domain), LAMBDA r1 :
    Bind(writeU16(r1.b, typeNum), LAMBDA r2 :
    Bind(writeU16(r2.b, 1), LAMBDA r3 :
    Bind(writeU32(r3.b, ttl), LAMBDA r4 : r4.b))))

\* for octet := range addr.To16() { buffer.writeU16(uint16(octet)) }: the
\* single range variable is the index, and the errors are dropped.
RECURSIVE WriteRangeIndexes(_, _, _)
WriteRangeIndexes(buffer, i, n) ==
    IF i >= n THEN buffer
    ELSE Bind(writeU16(buffer, i), LAMBDA r : WriteRangeIndexes(r.b, i + 1, n))

\* The cases of WriteDnsRecord's type switch; startPos is buffer.Pos on entry.
WriteDone(b, startPos) == [b |-> b, n |-> b.Pos - startPos, err |-> Nil]

WriteFail(b, e) == [b |-> b, n |-> 0, err |-> e]

WriteARecord(record, buffer) ==
    Bind(WritePreambleUnchecked(buffer, record.Domain, ToNum("A"), record.TTL), LAMBDA b1 :
    Bind(writeU16(b1, 4), LAMBDA r2 :
    Bind(To4(record.Addr), LAMBDA octets :
    IF Len(octets) < 4 THEN WriteFail(r2.b, Panic) ELSE
    Bind(writeU8(r2.b, octets[1]), LAMBDA r3 :
    Bind(writeU8(r3.b, octets[2]), LAMBDA r4 :
    Bind(writeU8(r4.b, octets[3]), LAMBDA r5 :
    Bind(writeU8(r5.b, octets[4]), LAMBDA r6 :
    WriteDone(r6.b, buffer.Pos))))))))

WriteNSRecord(record, buffer) ==
    Bind(WritePreambleUnchecked(buffer, record.Domain, ToNum("NS"), record.TTL), LAMBDA b1 :
    Bind(writeU16(b1, 0), LAMBDA r2 :
    Bind(writeQname(r2.b, record.Host), LAMBDA r3 :
    LET pos == b1.Pos
        size == r3.b.Pos - (pos + 2)
    IN
    Bind(setU16(r3.b, pos, size % 65536), LAMBDA r4 :
    IF r4.err = Panic THEN WriteFail(r4.b, Panic)
    ELSE WriteDone(r4.b, buffer.Pos)))))

WriteCNAMERecord(record, buffer) ==
    Bind(writeQname(buffer, record.Domain), LAMBDA r1 :
    IF r1.err # Nil THEN WriteFail(r1.b, r1.err) ELSE
    Bind(writeU16(r1.b, ToNum("CNAME")), LAMBDA r2 :
    IF r2.err # Nil THEN WriteFail(r2.b, r2.err) ELSE
    Bind(writeU16(r2.b, 1), LAMBDA r3 :
    IF r3.err # Nil THEN WriteFail(r3.b, r3.err) ELSE
    Bind(writeU32(r3.b, record.TTL), LAMBDA r4 :
    IF r4.err # Nil THEN WriteFail(r4.b, r4.err) ELSE
    Bind(writeU16(r4.b, 0), LAMBDA r5 :
    IF r5.err # Nil THEN WriteFail(r5.b, r5.err) ELSE
    Bind(writeQname(r5.b, record.Host), LAMBDA r6 :
    IF r6.err # Nil THEN WriteFail(r6.b, r6.err) ELSE
    LET pos == r4.b.Pos
        size == r6.b.Pos - (pos + 2)
    IN
    Bind(setU16(r6.b, pos, size % 65536), LAMBDA r7 :
    IF r7.err # Nil THEN WriteFail(r7.b, r7.err)
    ELSE WriteDone(r7.b, buffer.Pos))))))))

WriteMXRecord(record, buffer) ==
    Bind(WritePreambleUnchecked(buffer, record.Domain, ToNum("MX"), record.TTL), LAMBDA b1 :
    Bind(writeU16(b1, 0), LAMBDA r2 :
    Bind(writeU16(r2.b, record.Priority), LAMBDA r3 :
    Bind(writeQname(r3.b, record.Host), LAMBDA r4 :
    LET pos == b1.Pos
        size == r4.b.Pos - (pos + 2)
    IN
    Bind(setU16(r4.b, pos, size % 65536), LAMBDA r5 :
    IF r5.err = Panic THEN WriteFail(r5.b, Panic)
    ELSE WriteDone(r5.b, buffer.Pos))))))

WriteAAAARecord(record, buffer) ==
    Bind(WritePreambleUnchecked(buffer, record.Domain, ToNum("AAAA"), record.TTL), LAMBDA b1 :
    Bind(writeU16(b1, 16), LAMBDA r2 :
    Bind(WriteRangeIndexes(r2.b, 0, Len(To16(record.Addr))), LAMBDA b3 :
    WriteDone(b3, buffer.Pos))))

\* The record's preamble and a zero length written for it.
WriteUnknownRecordHeader(record, buffer) ==
    Bind(WritePreambleUnchecked(buffer, record.Domain, record.QType, record.TTL), LAMBDA b1 :
    Bind(writeU16(b1, 0), LAMBDA r2 :
    WriteDone(r2.b, buffer.Pos)))

\* case UnknownRecord: only a line is printed.
WriteUnknownRecord(record, buffer) == WriteDone(buffer, buffer.Pos)

WriteDnsRecord(dr, buffer) ==
    CASE dr.kind = "A" -> WriteARecord(dr, buffer)
      [] dr.kind = "NS" -> WriteNSRecord(dr, buffer)
      [] dr.kind = "CNAME" -> WriteCNAMERecord(dr, buffer)
      [] dr.kind = "MX" -> WriteMXRecord(dr, buffer)
      [] dr.kind = "AAAA" -> WriteAAAARecord(dr, buffer)
      [] dr.kind = "Unknown" -> WriteUnknownRecord(dr, buffer)
      [] OTHER -> WriteFail(buffer, ErrUnknownRecord)

-----------------------------------------------------------------------------
(* DnsPacket: [Header, Questions, Answers, Authorities, Resources] *)

NewDnsPacket ==
    [Header |-> NewDnsHeader, Questions |-> <<>>, Answers |-> <<>>,
     Authorities |-> <<>>, Resources |-> <<>>]

\* for i := 0; i < int(count); i++ { question.read; append }: n to go
\* No question is read, whatever the header announced.
ReadQuestionsNone(buffer, n, acc) == [list |-> acc, b |-> buffer, err |-> Nil]

RECURSIVE ReadQuestions(_, _, _)
ReadQuestions(buffer, n, acc) ==
    IF n = 0 THEN [list |-> acc, b |-> buffer, err |-> Nil] ELSE
    Bind(QuestionRead(newDnsQuestion(<<>>, ToNum("UNKNOWN")), buffer), LAMBDA r :
    IF r.err # Nil THEN [list |-> acc, b |-> r.b, err |-> r.err]
    ELSE Bind(Append(acc, r.q), LAMBDA acc1 : ReadQuestions(r.b, n - 1, acc1)))

\* for i := 0; i < int(count); i++ { ReadDnsRecord; append }: n to go
RECURSIVE ReadRecords(_, _, _)
ReadRecords(buffer, n, acc) ==
    IF n = 0 THEN [list |-> acc, b |-> buffer, err |-> Nil] ELSE
    Bind(ReadDnsRecord(buffer), LAMBDA r :
    IF r.err # Nil THEN [list |-> acc, b |-> r.b, err |-> r.err]
    ELSE Bind(Append(acc, r.rec), LAMBDA acc1 : ReadRecords(r.b, n - 1, acc1)))

DnsPacketFromBuffer(buffer) ==
    Bind(HeaderRead(NewDnsHeader, buffer), LAMBDA h :
    Bind([NewDnsPacket EXCEPT !.Header = h.h], LAMBDA p0 :
    IF h.err # Nil THEN [p |-> p0, b |-> h.b, err |-> h.err] ELSE
    Bind(ReadQuestions(h.b, h.h.Questions, <<>>), LAMBDA qd :
    Bind([p0 EXCEPT !.Questions = qd.list], LAMBDA p1 :
    IF qd.err # Nil THEN [p |-> p1, b |-> qd.b, err |-> qd.err] ELSE
    Bind(ReadRecords(qd.b, h.h.answers, <<>>), LAMBDA an :
    Bind([p1 EXCEPT !.Answers = an.list], LAMBDA p2 :
    IF an.err # Nil THEN [p |-> p2, b |-> an.b, err |-> an.err] ELSE
    Bind(ReadRecords(an.b, h.h.authoritativeEntries, <<>>), LAMBDA ns :
    Bind([p2 EXCEPT !.Authorities = ns.list], LAMBDA p3 :
    IF ns.err # Nil THEN [p |-> p3, b |-> ns.b, err |-> ns.err] ELSE
    Bind(ReadRecords(ns.b, h.h.resourceEntries, <<>>), LAMBDA ar :
    [p |-> [p3 EXCEPT !.Resources = ar.list], b |-> ar.b, err |-> ar.err]
    )))))))))

\* for _, question := range p.Questions: questions i..Len(list)
RECURSIVE WriteQuestions(_, _, _)
WriteQuestions(buffer, list, i) ==
    IF i > Len(list) THEN [b |-> buffer, err |-> Nil] ELSE
    Bind(QuestionWrite(list[i], buffer), LAMBDA r :
    IF r.err # Nil THEN r ELSE WriteQuestions(r.b, list, i + 1))

\* for _, rec := range list: records i..Len(list)
RECURSIVE WriteRecords(_, _, _)
WriteRecords(buffer, list, i) ==
    IF i > Len(list) THEN [b |-> buffer, err |-> Nil] ELSE
    Bind(list[i], LAMBDA rec :
    Bind(WriteDnsRecord(rec, buffer), LAMBDA r :
    IF r.err # Nil THEN [b |-> r.b, err |-> r.err]
    ELSE WriteRecords(r.b, list, i + 1)))

\* Write with the counts left as the header holds them.
SyncCountsStale(pk) == pk

\* The four assignments that open Write.
SyncCounts(pk) ==
    [pk EXCEPT !.Header.Questions = Len(pk.Questions) % 65536,
               !.Header.answers = Len(pk.Answers) % 65536,
               !.Header.authoritativeEntries = Len(pk.Authorities) % 65536,
               !.Header.resourceEntries = Len(pk.Resources) % 65536]

\* p.Write(buffer): the packet with its four counts set, the buffer, the error.
PacketWrite(pk, buffer) ==
    Bind(SyncCounts(pk), LAMBDA p :
    Bind(HeaderWrite(p.Header, buffer), LAMBDA h :
    IF h.err # Nil THEN [p |-> p, b |-> h.b, err |-> h.err] ELSE
    Bind(WriteQuestions(h.b, p.Questions, 1), LAMBDA qd :
    IF qd.err # Nil THEN [p |-> p, b |-> qd.b, err |-> qd.err] ELSE
    Bind(WriteRecords(qd.b, p.Answers, 1), LAMBDA an :
    IF an.err # Nil THEN [p |-> p, b |-> an.b, err |-> an.err] ELSE
    Bind(WriteRecords(an.b, p.Authorities, 1), LAMBDA ns :
    IF ns.err # Nil THEN [p |-> p, b |-> ns.b, err |-> ns.err] ELSE
    Bind(WriteRecords(ns.b, p.Resources, 1), LAMBDA ar :
    [p |-> p, b |-> ar.b, err |-> ar.err]))))))

-----------------------------------------------------------------------------
(* Buffers that arrive from the network.  Any 512 bytes can arrive; the    *)
(* model draws them from two families.  A window buffer holds MaxWin       *)
(* arbitrary bytes of WinBytes at the start or at the end of a zeroed      *)
(* buffer: pointers to themselves, pointer cycles, forward pointers and    *)
(* labels that run off the end all occur.  A chain buffer holds a name     *)
(* that is compressed n times: entry 0 is a plain name, entry k is some    *)
(* labels followed by a pointer to entry k-1.                              *)

MaxWin == 3
MaxChain == 6

WinBytes == {0, 1, 2, 65, 192, 193}

LabelLists ==
    { <<>>,
      <<(<<97>>)>>,
      <<(<<65, 98>>), (<<99>>)>>,
      <<(<<119, 119, 119>>), (<<103, 111, 111, 103, 108, 101>>), (<<99, 111, 109>>)>> }

MidLabels == { <<>>, <<(<<65, 98>>), (<<99>>)>> }

ChainOrigins == {12, 300}

PutBytes(buf, at, bytes) ==
    [i \in 0..(BufSize - 1) |->
        IF i >= at /\ i < at + Len(bytes) THEN bytes[i - at + 1] ELSE buf[i]]

RECURSIVE EncLabels(_)
EncLabels(ls) ==
    IF ls = <<>> THEN <<>>
    ELSE <<Len(Head(ls))>> \o Head(ls) \o EncLabels(Tail(ls))

Pointer(off) == <<192 + (off \div 256), off % 256>>

\* c = [n, base, mid, top, origin]
ChainEntryLabels(c, k) ==
    IF k = 0 THEN c.base ELSE IF k = c.n THEN c.top ELSE c.mid

RECURSIVE ChainEntryOff(_, _)
ChainEntryOff(c, k) ==
    IF k = 0 THEN c.origin
    ELSE ChainEntryOff(c, k - 1) + Len(EncLabels(ChainEntryLabels(c, k - 1)))
            + (IF k = 1 THEN 1 ELSE 2)

ChainEntryBytes(c, k) ==
    EncLabels(ChainEntryLabels(c, k))
        \o (IF k = 0 THEN <<0>> ELSE Pointer(ChainEntryOff(c, k - 1)))

RECURSIVE ChainBytes(_, _)
ChainBytes(c, k) ==
    IF k = 0 THEN ChainEntryBytes(c, 0)
    ELSE ChainBytes(c, k - 1) \o ChainEntryBytes(c, k)

RECURSIVE ChainName(_, _)
ChainName(c, k) ==
    IF k = 0 THEN c.base ELSE ChainEntryLabels(c, k) \o ChainName(c, k - 1)

Chains ==
    [n : 0..MaxChain, base : LabelLists, mid : MidLabels, top : LabelLists,
     origin : ChainOrigins]

ChainBuffer(c) ==
    [Buf |-> PutBytes(ZeroBuf, c.origin, ChainBytes(c, c.n)),
     Pos |-> ChainEntryOff(c, c.n)]

Windows ==
    [base : {0, BufSize - MaxWin},
     bytes : [1..MaxWin -> WinBytes],
     start : 0..(MaxWin - 1)]

WindowBuffer(w) ==
    [Buf |-> PutBytes(ZeroBuf, w.base, w.bytes), Pos |-> w.base + w.start]

-----------------------------------------------------------------------------
(* Specification SpecQname: readQname on a buffer from the network, one    *)
(* loop iteration per step.                                                *)

InitQname ==
    /\ packet = Idle /\ wire = Idle /\ wres = Idle /\ dec = Idle
    /\ stack = Idle /\ sent = Idle /\ outcome = Idle /\ failure = Idle
    /\ rin = Idle /\ enc = Idle /\ rdec = Idle /\ renc = Idle
    /\ nsin = Idle /\ nsout = Idle
    /\ srv = Idle /\ sock = Idle
    /\ \/ \E c \in Chains :
             /\ qn = readQnameEnter(ChainBuffer(c))
             /\ lay = [kind |-> "chain", start |-> ChainEntryOff(c, c.n),
                       jumps |-> c.n, labels |-> ChainName(c, c.n)]
       \/ \E w \in Windows :
             /\ qn = readQnameEnter(WindowBuffer(w))
             /\ lay = [kind |-> "window", start |-> w.base + w.start,
                       jumps |-> 0, labels |-> <<>>]

QnameStep ==
    /\ qn.status = "loop"
    /\ qn' = readQnameIter(qn)
    /\ UNCHANGED <<lay, codecVars, resolverVars, recordVars, nsVars, serverVars>>

NextQname == QnameStep

SpecQname == InitQname /\ [][NextQname]_vars

\* The loop is sequential code: an enabled iteration is eventually run.
FairSpecQname == SpecQname /\ WF_vars(QnameStep)

-----------------------------------------------------------------------------
(* Specification Spec: the codec.  A DnsPacket is built the way the        *)
(* program builds one (lookup's literal, handleQuery's appends: questions, *)
(* answers, authorities, resources in that order), written into a fresh    *)
(* buffer with Write and, when Write returned nil, decoded again with      *)
(* DnsPacketFromBuffer; or a datagram is received from the network into a  *)
(* fresh buffer and decoded (handleQuery, lookup).                         *)

MaxRecs == 2
MaxQuestions == 1

NameA == <<97>>
NameNsB == <<110, 115, 46, 98>>
LongLabel == [i \in 1..63 |-> 120]
LongName == LongLabel \o <<46>> \o LongLabel \o <<46>> \o LongLabel
BadName == [i \in 1..64 |-> 120]

TTL300 == <<0, 0, 1, 44>>
TTLMax == <<255, 255, 255, 255>>

Addr6 == <<32, 1, 13, 184, 0, 0, 0, 0, 0, 0, 0, 0, 0, 0, 0, 1>>

BuildRecords ==
    { [kind |-> "A", Domain |-> NameA, Addr |-> <<198, 41, 0, 4>>, TTL |-> TTL300],
      [kind |-> "A", Domain |-> BadName, Addr |-> <<1, 2, 3, 4>>, TTL |-> TTL300],
      [kind |-> "AAAA", Domain |-> NameA, Addr |-> Addr6, TTL |-> TTL300],
      [kind |-> "NS", Domain |-> NameA, Host |-> NameNsB, TTL |-> TTL300],
      [kind |-> "NS", Domain |-> LongName, Host |-> LongName, TTL |-> TTL300],
      [kind |-> "CNAME", Domain |-> NameA, Host |-> NameNsB, TTL |-> TTL300],
      [kind |-> "MX", Domain |-> NameA, Priority |-> 65535, Host |-> NameNsB,
       TTL |-> TTLMax],
      [kind |-> "Unknown", Domain |-> NameA, QType |-> 99, DataLen |-> 4, TTL |-> TTL300] }

\* The records appended to a packet that holds a record already.
MoreRecords ==
    { r \in BuildRecords :
        \/ r.kind = "A" /\ r.Domain = NameA
        \/ r.kind = "NS" /\ r.Domain = LongName
        \/ r.kind = "MX" }

NextRecords(p) ==
    IF Len(p.Answers) + Len(p.Authorities) + Len(p.Resources) = 0
    THEN BuildRecords ELSE MoreRecords

BuildQuestions ==
    { newDnsQuestion(NameNsB, 28), newDnsQuestion(BadName, 1) }

\* NewDnsHeader (handleQuery), the header lookup builds, and a header with
\* every flag set and counts left over from an earlier use.
BuildHeaders ==
    { NewDnsHeader,
      [NewDnsHeader EXCEPT !.Id = 6666, !.Questions = 1, !.RecursionDesired = TRUE],
      [Id |-> 65535, RecursionDesired |-> TRUE, truncatedMessage |-> TRUE,
       authoritativeAnswer |-> TRUE, opcode |-> 15, Response |-> TRUE,
       Rescode |-> 15, checkingDisabled |-> TRUE, authedData |-> TRUE,
       z |-> TRUE, RecursionAvailable |-> TRUE,
       Questions |-> 7, answers |-> 7, authoritativeEntries |-> 7,
       resourceEntries |-> 7] }

\* Datagrams from the network: a header, a question or none, and `an`
\* answer records of wire type `type` that declare `dataLen` bytes of data,
\* whatever data follows.  The record's name is plain or a pointer to
\* offset 12.
InTypes == {1, 2, 5, 15, 28, 99}
InDataLens == {0, 4, 6, 16, 500, 65535}

U16Bytes(v) == <<v \div 256, v % 256>>

InRdata(type) ==
    CASE type = 1 -> <<198, 41, 0, 4>>
      [] type = 2 -> <<2, 110, 115, 1, 98, 0>>
      [] type = 5 -> <<2, 110, 115, 192, 12>>
      [] type = 15 -> <<0, 10, 2, 109, 120, 192, 12>>
      [] type = 28 -> Addr6
      [] OTHER -> <<1, 2, 3, 4>>

InRecord(d) ==
    (IF d.ptr THEN <<192, 12>> ELSE <<1, 97, 0>>)
        \o U16Bytes(d.type) \o <<0, 1>> \o TTL300 \o U16Bytes(d.dataLen)
        \o InRdata(d.type)

RECURSIVE Repeat(_, _)
Repeat(bytes, n) == IF n = 0 THEN <<>> ELSE bytes \o Repeat(bytes, n - 1)

Datagrams ==
    [qd : 0..1, an : 1..2, type : InTypes, dataLen : InDataLens,
     ptr : BOOLEAN]

DatagramBytes(d) ==
    <<0, 1, 129, 128>> \o U16Bytes(d.qd) \o U16Bytes(d.an) \o <<0, 0, 0, 0>>
        \o (IF d.qd = 1 THEN <<1, 97, 0, 0, 1, 0, 1>> ELSE <<>>)
        \o Repeat(InRecord(d), d.an)

NumRecs(p) == Len(p.Answers) + Len(p.Authorities) + Len(p.Resources)

Init ==
    /\ qn = Idle /\ lay = Idle
    /\ stack = Idle /\ sent = Idle /\ outcome = Idle /\ failure = Idle
    /\ rin = Idle /\ enc = Idle /\ rdec = Idle /\ renc = Idle
    /\ nsin = Idle /\ nsout = Idle
    /\ srv = Idle /\ sock = Idle
    /\ \E h \in BuildHeaders : packet = [NewDnsPacket EXCEPT !.Header = h]
    /\ wire = NewBytePacketBuffer
    /\ wres = "none"
    /\ dec = NoDecode

AppendQuestion ==
    /\ wres = "none"
    /\ Len(packet.Questions) < MaxQuestions /\ NumRecs(packet) = 0
    /\ \E q \in BuildQuestions :
          packet' = [packet EXCEPT !.Questions = Append(@, q)]
    /\ UNCHANGED <<wire, wres, dec, qnameVars, resolverVars, recordVars, nsVars, serverVars>>

AppendAnswer ==
    /\ wres = "none"
    /\ NumRecs(packet) < MaxRecs
    /\ packet.Authorities = <<>> /\ packet.Resources = <<>>
    /\ \E r \in NextRecords(packet) :
          packet' = [packet EXCEPT !.Answers = Append(@, r)]
    /\ UNCHANGED <<wire, wres, dec, qnameVars, resolverVars, recordVars, nsVars, serverVars>>

AppendAuthority ==
    /\ wres = "none"
    /\ NumRecs(packet) < MaxRecs
    /\ packet.Resources = <<>>
    /\ \E r \in NextRecords(packet) :
          packet' = [packet EXCEPT !.Authorities = Append(@, r)]
    /\ UNCHANGED <<wire, wres, dec, qnameVars, resolverVars, recordVars, nsVars, serverVars>>

AppendResource ==
    /\ wres = "none"
    /\ NumRecs(packet) < MaxRecs
    /\ \E r \in NextRecords(packet) :
          packet' = [packet EXCEPT !.Resources = Append(@, r)]
    /\ UNCHANGED <<wire, wres, dec, qnameVars, resolverVars, recordVars, nsVars, serverVars>>

\* packet.Write(resBuffer) on a buffer from NewBytePacketBuffer.
WritePacket ==
    /\ wres = "none"
    /\ \E r \in {PacketWrite(packet, NewBytePacketBuffer)} :
          /\ packet' = r.p
          /\ wire' = r.b
          /\ wres' = r.err
    /\ UNCHANGED <<dec, qnameVars, resolverVars, recordVars, nsVars, serverVars>>

\* socket.ReadFrom(buffer.Buf[:]) into a fresh buffer.
ReceiveDatagram ==
    /\ wres = "none"
    /\ packet = [NewDnsPacket EXCEPT !.Header = NewDnsHeader]
    /\ \E d \in Datagrams :
          wire' = [Buf |-> PutBytes(ZeroBuf, 0, DatagramBytes(d)), Pos |-> 0]
    /\ wres' = "received"
    /\ UNCHANGED <<packet, dec, qnameVars, resolverVars, recordVars, nsVars, serverVars>>

\* DnsPacketFromBuffer on the bytes written or received, cursor at 0.
DecodePacket ==
    /\ wres \in {Nil, "received"}
    /\ dec.err = "none"
    /\ \E r \in {DnsPacketFromBuffer([wire EXCEPT !.Pos = 0])} :
          dec' = [p |-> r.p, err |-> r.err, Pos |-> r.b.Pos]
    /\ UNCHANGED <<packet, wire, wres, qnameVars, resolverVars, recordVars, nsVars, serverVars>>

Next ==
    \/ AppendQuestion
    \/ AppendAnswer
    \/ AppendAuthority
    \/ AppendResource
    \/ WritePacket
    \/ ReceiveDatagram
    \/ DecodePacket

Spec == Init /\ [][Next]_vars

-----------------------------------------------------------------------------
(* Claims about readQname *)

\* The byte pair at the starting cursor is a compression pointer whose
\* target is the starting cursor itself.
SelfPointer ==
    /\ lay.start + 1 < BufSize
    /\ qn.b.Buf[lay.start] = 192 + (lay.start \div 256)
    /\ qn.b.Buf[lay.start + 1] = lay.start % 256

\* C2: readQname terminates on every buffer content and starting cursor: it
\* eventually returns a name or an error, and on a pointer that points at
\* itself what it returns is the jump-limit error.
C2_ReadQnameTerminates ==
    /\ <>(qn.status # "loop")
    /\ [](SelfPointer /\ qn.status # "loop" => qn.status = ErrJumps)

C2_Witness == SelfPointer /\ qn.status = ErrJumps

Fold(c) == IF c \in 65..90 THEN c + 32 ELSE c

RECURSIVE JoinDots(_)
JoinDots(ls) ==
    IF ls = <<>> THEN <<>>
    ELSE IF Len(ls) = 1 THEN [i \in 1..Len(ls[1]) |-> Fold(ls[1][i])]
    ELSE [i \in 1..Len(ls[1]) |-> Fold(ls[1][i])] \o <<46>> \o JoinDots(Tail(ls))

\* C10 as stated: a name laid out as labels followed by a pointer to an
\* earlier valid name (itself possibly compressed) always decodes to the
\* lower-cased labels joined with single dots.
C10_DecodesEveryChain ==
    (lay.kind = "chain" /\ qn.status # "loop")
        => (qn.status = Nil /\ qn.outstr = JoinDots(lay.labels))

\* C10 amended: the same, for names whose decoding follows at most maxJumps
\* compression pointers.
C10_DecodesChainWithinJumpLimit ==
    (lay.kind = "chain" /\ lay.jumps <= maxJumps /\ qn.status # "loop")
        => (qn.status = Nil /\ qn.outstr = JoinDots(lay.labels))

C10_Witness ==
    /\ lay.kind = "chain" /\ lay.jumps = 2
    /\ qn.status = Nil
    /\ qn.outstr = <<97, 98, 46, 99, 46, 119, 119, 119, 46, 103, 111, 111, 103,
                     108, 101, 46, 99, 111, 109>>

-----------------------------------------------------------------------------
(* Properties of the codec, stated over Spec.  packet is the message as     *)
(* Write left it, wres what Write returned, dec what DnsPacketFromBuffer    *)
(* made of the bytes.                                                      *)

SupportedKinds == {"A", "AAAA", "NS", "CNAME", "MX"}

AllRecords(p) == p.Answers \o p.Authorities \o p.Resources

RecordNames(r) ==
    IF r.kind \in {"NS", "CNAME", "MX"} THEN {r.Domain, r.Host} ELSE {r.Domain}

AllNames(p) ==
    { p.Questions[i].Name : i \in DOMAIN p.Questions }
        \cup UNION { RecordNames(AllRecords(p)[i]) : i \in DOMAIN AllRecords(p) }

HasLongLabel(p) ==
    \E n \in AllNames(p) : \E i \in DOMAIN Split(n) : Len(Split(n)[i]) > 63

\* The size RFC 1035 gives the uncompressed encoding of a non-empty name,
\* of a record and of a message.
NameSize(n) == Len(n) + 2

RdataSize(r) ==
    CASE r.kind = "A" -> 4
      [] r.kind = "AAAA" -> 16
      [] r.kind \in {"NS", "CNAME"} -> NameSize(r.Host)
      [] r.kind = "MX" -> 2 + NameSize(r.Host)
      [] OTHER -> r.DataLen

RECURSIVE SumSizes(_, _, _)
SumSizes(list, Size(_), i) ==
    IF i > Len(list) THEN 0 ELSE Size(list[i]) + SumSizes(list, Size, i + 1)

QuestionSize(q) == NameSize(q.Name) + 4

RecordSize(r) == NameSize(r.Domain) + 10 + RdataSize(r)

WireSize(p) ==
    12 + SumSizes(p.Questions, QuestionSize, 1)
       + SumSizes(AllRecords(p), RecordSize, 1)

Written == wres \notin {"none", "received"}

Decoded == dec.err # "none"

\* C1: a message of supported record types whose encoding fits in the 512
\* bytes, written into a fresh buffer and decoded from those bytes, comes
\* back equal in every field, the header counts being the list lengths.
C1_RoundTrip ==
    ( /\ Written /\ Decoded
      /\ \A i \in DOMAIN AllRecords(packet) :
            AllRecords(packet)[i].kind \in SupportedKinds
      /\ ~HasLongLabel(packet)
      /\ WireSize(packet) <= BufSize )
    => (wres = Nil /\ dec.err = Nil /\ dec.p = packet)

\* C3: whenever every operation of a decode succeeded, the cursor it leaves
\* is at most the capacity 512.
C3_CursorWithinCapacity ==
    (Decoded /\ dec.err = Nil) => dec.Pos <= BufSize

\* C4: encoding a record when the buffer is already full ends in an error
\* returned to the caller, never in a crash of the program.
C4_PatchNeverCrashes == wres # Panic

\* C5: Write reports success only when every byte of the message was
\* written: no name has a label longer than 63 bytes and the message did
\* not outgrow the 512 bytes.
C5_NoSilentTruncation ==
    ( /\ wres = Nil
      /\ \A i \in DOMAIN AllRecords(packet) :
            AllRecords(packet)[i].kind \in SupportedKinds )
    => (~HasLongLabel(packet) /\ WireSize(packet) <= BufSize)

\* C6: after Write, the four counts of the header, in the message and in
\* bytes 4..11 of the buffer, are the lengths of the four lists, whatever
\* the header held before.
C6_CountsEqualListLengths ==
    Written =>
        /\ packet.Header.Questions = Len(packet.Questions)
        /\ packet.Header.answers = Len(packet.Answers)
        /\ packet.Header.authoritativeEntries = Len(packet.Authorities)
        /\ packet.Header.resourceEntries = Len(packet.Resources)
        /\ << wire.Buf[4], wire.Buf[5] >> = U16Bytes(Len(packet.Questions))
        /\ << wire.Buf[6], wire.Buf[7] >> = U16Bytes(Len(packet.Answers))
        /\ << wire.Buf[8], wire.Buf[9] >> = U16Bytes(Len(packet.Authorities))
        /\ << wire.Buf[10], wire.Buf[11] >> = U16Bytes(Len(packet.Resources))

\* The header that came with counts of 7 (Id 65535), written with one
\* answer and one additional record.
C6_Witness ==
    /\ wres = Nil
    /\ packet.Header.Id = 65535
    /\ Len(packet.Questions) = 1
    /\ Len(packet.Answers) = 1 /\ Len(packet.Resources) = 1
    /\ packet.Header.answers = 1 /\ wire.Buf[7] = 1

-----------------------------------------------------------------------------
(* The resolver: recursiveLookup as a stack of calls.  A frame holds the   *)
(* locals of one call: qname, qtype, ns, the response of the iteration,   *)
(* where the call stands ("lookup": about to call lookup; "await": inside  *)
(* the nested recursiveLookup; "done": returning ret).  A reply is the     *)
(* DnsPacket that DnsPacketFromBuffer made of the datagram.                *)

NOERROR == 0
SERVFAIL == 2
NXDOMAIN == 3

NilIP == <<>>

\* net.ParseIP("198.41.0.4").To4()
RootServer == <<198, 41, 0, 4>>

\* The name begins with the domain instead of ending with it.
HasPrefix(s, prefix) ==
    /\ Len(prefix) <= Len(s)
    /\ SubSeq(s, 1, Len(prefix)) = prefix

HasSuffix(s, suffix) ==
    /\ Len(suffix) <= Len(s)
    /\ SubSeq(s, Len(s) - Len(suffix) + 1, Len(s)) = suffix

\* The first element of list that satisfies Test is at this index, 0 if none.
FirstIndex(list, Test(_)) ==
    IF \E i \in DOMAIN list : Test(list[i])
    THEN CHOOSE i \in DOMAIN list :
            Test(list[i]) /\ \A j \in 1..(i - 1) : ~Test(list[j])
    ELSE 0

\* No address is ever found in the answers.
GetRandomANever(p) == NilIP

GetRandomA(p) ==
    Bind(FirstIndex(p.Answers, LAMBDA record : record.kind = "A"), LAMBDA i :
    IF i = 0 THEN NilIP ELSE p.Answers[i].Addr)

getNs(p, qname) ==
    SelectSeq(p.Authorities,
              LAMBDA record : record.kind = "NS" /\ HasSuffix(qname, record.Domain))

\* Glue is never looked for.
GetResolvedNsNever(p, qname) == NilIP

GetResolvedNs(p, qname) ==
    Bind(getNs(p, qname), LAMBDA nsRecords :
    Bind(FirstIndex(nsRecords, LAMBDA nsRecord :
            \E k \in DOMAIN p.Resources :
                /\ p.Resources[k].kind = "A"
                /\ p.Resources[k].Domain = nsRecord.Host), LAMBDA i :
    IF i = 0 THEN NilIP ELSE
    Bind(FirstIndex(p.Resources, LAMBDA record :
            record.kind = "A" /\ record.Domain = nsRecords[i].Host), LAMBDA k :
    p.Resources[k].Addr)))

GetUnresolvedNS(p, qname) ==
    Bind(getNs(p, qname), LAMBDA nsRecords :
    IF Len(nsRecords) > 0 THEN nsRecords[1].Host ELSE <<>>)

NoRet == [ptr |-> FALSE, resp |-> NewDnsPacket, err |-> "none"]

NewFrame(qname, qtype) ==
    [qname |-> qname, qtype |-> qtype, ns |-> RootServer,
     response |-> NewDnsPacket, got |-> FALSE, pc |-> "lookup", ret |-> NoRet]

Return(f, ptr, resp, err) ==
    [f EXCEPT !.pc = "done", !.ret = [ptr |-> ptr, resp |-> resp, err |-> err]]

\* A name error is never taken for the end of the resolution.
IsNameErrorNever(response) == FALSE

\* len(response.Answers) > 0 && response.Header.Rescode == dns.NOERROR
HasAnswers(response) ==
    Len(response.Answers) > 0 /\ response.Header.Rescode = NOERROR

\* response.Header.Rescode == dns.NXDOMAIN
IsNameError(response) == response.Header.Rescode = NXDOMAIN

\* One iteration of the loop after lookup returned response without an
\* error, up to the next call or the return.
AfterLookup(frame, response) ==
    Bind([frame EXCEPT !.response = response, !.got = TRUE], LAMBDA f :
    IF HasAnswers(response) THEN Return(f, TRUE, response, Nil)
    ELSE IF IsNameError(response) THEN Return(f, TRUE, response, Nil)
    ELSE Bind(GetResolvedNs(response, f.qname), LAMBDA newNS :
         IF newNS # NilIP THEN [f EXCEPT !.ns = newNS]
         ELSE IF GetUnresolvedNS(response, f.qname) # <<>>
              THEN [f EXCEPT !.pc = "await"]
              ELSE Return(f, TRUE, response, Nil)))

\* The caller's iteration after the nested recursiveLookup returned ret.
AfterNested(frame, ret) ==
    IF ret.err # Nil THEN Return(frame, TRUE, frame.response, ret.err)
    ELSE Bind(GetRandomA(ret.resp), LAMBDA newNS :
         IF newNS # NilIP THEN [frame EXCEPT !.ns = newNS, !.pc = "lookup"]
         ELSE Return(frame, TRUE, frame.response, Nil))

\* The query lookup builds and sends for a frame, as the history keeps it.
Query(f, depth) ==
    [qname |-> f.qname, qtype |-> f.qtype, server |-> f.ns, depth |-> depth]

-----------------------------------------------------------------------------
(* The replies and the questions the resolver is run on. *)

MaxQueries == 4
MaxDepth == 2

NameCom == <<97, 46, 99, 111, 109>>
NameOrg == <<111, 114, 103>>
HostB == <<110, 115, 46, 98>>
HostC == <<110, 115, 46, 99>>
AddrAnswer == <<93, 184, 216, 34>>
AddrGlue == <<199, 43, 135, 53>>
AddrOther == <<10, 0, 0, 1>>

ARec(domain, addr) == [kind |-> "A", Domain |-> domain, Addr |-> addr, TTL |-> TTL300]

NSRec(domain, host) == [kind |-> "NS", Domain |-> domain, Host |-> host, TTL |-> TTL300]

ReplyAnswers ==
    { <<>>, << ARec(NameCom, AddrAnswer) >>, << NSRec(NameCom, HostB) >> }

\* No delegation; the root's NS with its glue; the same without glue; an NS
\* of another zone with an address; two NS of which the second has glue.
ReplyDelegations ==
    { [ns |-> <<>>, ar |-> <<>>],
      [ns |-> << NSRec(<<>>, HostB) >>, ar |-> << ARec(HostB, AddrGlue) >>],
      [ns |-> << NSRec(<<>>, HostB) >>, ar |-> << ARec(HostC, AddrOther) >>],
      [ns |-> << NSRec(NameOrg, HostB) >>, ar |-> << ARec(HostB, AddrGlue) >>],
      [ns |-> << NSRec(<<>>, HostC), NSRec(NameCom, HostB) >>,
       ar |-> << ARec(NameCom, AddrOther), ARec(HostB, AddrGlue) >>] }

Replies ==
    { [NewDnsPacket EXCEPT !.Header.Id = 6666, !.Header.Response = TRUE,
                           !.Header.Rescode = rc, !.Answers = an,
                           !.Authorities = d.ns, !.Resources = d.ar] :
        rc \in {NOERROR, SERVFAIL, NXDOMAIN}, an \in ReplyAnswers,
        d \in ReplyDelegations }

Asked == { [qname |-> NameCom, qtype |-> "A"], [qname |-> HostB, qtype |-> "MX"] }

NoOutcome == [kind |-> "none", ptr |-> FALSE, resp |-> NewDnsPacket, err |-> "none"]

Top == stack[Len(stack)]

SetTop(f) == [stack EXCEPT ![Len(stack)] = f]

\* handleQuery calls recursiveLookup for the question it received.
InitResolver ==
    /\ qn = Idle /\ lay = Idle
    /\ packet = Idle /\ wire = Idle /\ wres = Idle /\ dec = Idle
    /\ rin = Idle /\ enc = Idle /\ rdec = Idle /\ renc = Idle
    /\ nsin = Idle /\ nsout = Idle
    /\ srv = Idle /\ sock = Idle
    /\ \E q \in Asked : stack = << NewFrame(q.qname, q.qtype) >>
    /\ sent = <<>>
    /\ outcome = NoOutcome
    /\ failure = "none"

CanLookup ==
    /\ outcome.kind = "none"
    /\ stack # <<>>
    /\ Top.pc = "lookup"
    /\ Len(sent) < MaxQueries

\* lookup sends the query and decodes the reply; the iteration goes on to
\* its return, to the next iteration, or into the nested call.
LookupReply ==
    /\ CanLookup
    /\ \E r \in Replies : \E f \in {AfterLookup(Top, r)} :
          IF f.pc = "await"
          THEN /\ Len(stack) < MaxDepth
               /\ stack' = Append(SetTop(f),
                                  NewFrame(GetUnresolvedNS(r, f.qname), "A"))
          ELSE stack' = SetTop(f)
    /\ sent' = Append(sent, Query(Top, Len(stack)))
    /\ UNCHANGED <<outcome, failure, qnameVars, codecVars, recordVars, nsVars, serverVars>>

\* The datagram received does not decode: lookup returns the error of
\* DnsPacketFromBuffer and recursiveLookup returns nil with it; response,
\* assigned anew in every iteration, holds no reply.
LookupDecodeError ==
    /\ CanLookup
    /\ \E e \in {ErrEndOfBuffer, ErrJumps} :
          stack' = SetTop(Return([Top EXCEPT !.response = NewDnsPacket,
                                              !.got = FALSE],
                                 FALSE, NewDnsPacket, e))
    /\ sent' = Append(sent, Query(Top, Len(stack)))
    /\ UNCHANGED <<outcome, failure, qnameVars, codecVars, recordVars, nsVars, serverVars>>

\* Binding the socket, sending the query or receiving the reply fails:
\* lookup prints the error and calls os.Exit(1).
LookupTransportFailure ==
    /\ CanLookup
    /\ \E failed \in {"bind", "send", "receive"} :
          /\ failure' = failed
          /\ sent' = IF failed = "receive"
                     THEN Append(sent, Query(Top, Len(stack))) ELSE sent
    /\ outcome' = [NoOutcome EXCEPT !.kind = "exit"]
    /\ UNCHANGED <<stack, qnameVars, codecVars, recordVars, nsVars, serverVars>>

\* A call returns: to handleQuery when it is the outermost, else into the
\* iteration of the call that started it.
ReturnToCaller ==
    /\ outcome.kind = "none"
    /\ stack # <<>>
    /\ Top.pc = "done"
    /\ IF Len(stack) = 1
       THEN /\ stack' = <<>>
            /\ outcome' = [kind |-> "returned", ptr |-> Top.ret.ptr,
                           resp |-> Top.ret.resp, err |-> Top.ret.err]
       ELSE /\ stack' = Append(SubSeq(stack, 1, Len(stack) - 2),
                               AfterNested(stack[Len(stack) - 1], Top.ret))
            /\ UNCHANGED outcome
    /\ UNCHANGED <<sent, failure, qnameVars, codecVars, recordVars, nsVars, serverVars>>

NextResolver ==
    \/ LookupReply
    \/ LookupDecodeError
    \/ LookupTransportFailure
    \/ ReturnToCaller

SpecResolver == InitResolver /\ [][NextResolver]_vars

-----------------------------------------------------------------------------
(* Properties of the resolver, stated over SpecResolver. *)

TerminalReply(r) ==
    \/ r.Header.Rescode = NXDOMAIN
    \/ r.Header.Rescode = NOERROR /\ Len(r.Answers) > 0

\* The addresses of the additional-section A records whose domain is the
\* host of an authority NS record whose domain is a suffix of qname.
GlueAddrs(r, qname) ==
    { r.Resources[k].Addr : k \in
        { k \in DOMAIN r.Resources :
            /\ r.Resources[k].kind = "A"
            /\ \E j \in DOMAIN r.Authorities :
                  /\ r.Authorities[j].kind = "NS"
                  /\ HasSuffix(qname, r.Authorities[j].Domain)
                  /\ r.Authorities[j].Host = r.Resources[k].Domain } }

\* C7: a call that received a reply with result code NXDOMAIN, or NOERROR
\* and an answer, is returning exactly that reply without an error, and the
\* query that reply answered is the last query sent.
C7_TerminalReplyReturned ==
    \A i \in DOMAIN stack :
        (stack[i].got /\ TerminalReply(stack[i].response)) =>
            /\ i = Len(stack)
            /\ stack[i].pc = "done"
            /\ stack[i].ret = [ptr |-> TRUE, resp |-> stack[i].response, err |-> Nil]
            /\ sent[Len(sent)] = Query(stack[i], i)

\* An NXDOMAIN reply that carries a delegation with glue, received as the
\* answer to a second query, is being returned.
C7_Witness ==
    /\ stack # <<>>
    /\ Len(sent) >= 2
    /\ Top.got /\ Top.response.Header.Rescode = NXDOMAIN
    /\ GlueAddrs(Top.response, Top.qname) # {}
    /\ Top.pc = "done" /\ Top.ret.resp = Top.response

GlueCase(f) ==
    f.got /\ ~TerminalReply(f.response) /\ GlueAddrs(f.response, f.qname) # {}

\* C8: a call whose non-terminal reply holds an NS record for a suffix of
\* the query name and an A record for that NS record's host has started no
\* nested resolution and has not returned, and the next query sent goes to
\* such an A record's address, for the query name and type of the query
\* before, from the same call.
C8_GlueFollowed ==
    /\ [](\A i \in DOMAIN stack :
            GlueCase(stack[i]) => (i = Len(stack) /\ stack[i].pc = "lookup"))
    /\ [][ (stack # <<>> /\ GlueCase(Top) /\ Len(sent') = Len(sent) + 1) =>
              /\ sent'[Len(sent')].server \in GlueAddrs(Top.response, Top.qname)
              /\ sent'[Len(sent')].qname = sent[Len(sent)].qname
              /\ sent'[Len(sent')].qtype = sent[Len(sent)].qtype
              /\ sent'[Len(sent')].depth = sent[Len(sent)].depth ]_vars

\* The second query went to the glue address of the second of two NS
\* records, from the call that sent the first.
C8_Witness ==
    /\ Len(sent) >= 2
    /\ sent[1].server = RootServer /\ sent[2].server = AddrGlue
    /\ sent[2].qname = NameCom /\ sent[2].qtype = "A" /\ sent[2].depth = 1
    /\ Len(stack) = 1 /\ Len(Top.response.Authorities) = 2

\* C9: when sending a query or receiving its reply failed, the resolution
\* ends with an error returned to the caller of the resolver.
C9_TransportFailureReturned ==
    failure \in {"send", "receive"} =>
        /\ outcome.kind # "exit"
        /\ (stack = <<>> => (outcome.kind = "returned" /\ outcome.err # Nil))

-----------------------------------------------------------------------------
(* One record through the codec: WriteDnsRecord at a cursor of a buffer,   *)
(* ReadDnsRecord on the bytes written, and WriteDnsRecord on the record    *)
(* read, as handleQuery re-encodes the records lookup decoded.             *)

Ns1ExampleCom ==
    <<110, 115, 49, 46, 101, 120, 97, 109, 112, 108, 101, 46, 99, 111, 109>>

Addr4Mapped == <<0, 0, 0, 0, 0, 0, 0, 0, 0, 0, 255, 255, 10, 0, 0, 1>>

MXRec(domain, priority, host) ==
    [kind |-> "MX", Domain |-> domain, Priority |-> priority, Host |-> host,
     TTL |-> TTL300]

CNAMERec(domain, host) ==
    [kind |-> "CNAME", Domain |-> domain, Host |-> host, TTL |-> TTL300]

AAAARec(domain, addr) ==
    [kind |-> "AAAA", Domain |-> domain, Addr |-> addr, TTL |-> TTLMax]

RecordInputs ==
    { NSRec(NameA, Ns1ExampleCom), NSRec(NameCom, HostB), NSRec(NameA, <<>>),
      NSRec(NameA, <<97, 46>>),
      CNAMERec(NameA, Ns1ExampleCom), CNAMERec(NameCom, NameNsB),
      MXRec(NameA, 10, Ns1ExampleCom), MXRec(NameCom, 65535, HostB),
      AAAARec(NameA, Addr6), AAAARec(NameCom, AddrGlue),
      ARec(NameA, AddrGlue), ARec(NameCom, Addr4Mapped),
      [kind |-> "Unknown", Domain |-> NameA, QType |-> 99, DataLen |-> 4,
       TTL |-> TTL300] }

RecordStarts == {0, 12, 255, 478, 500}

NoEncode == [b |-> NewBytePacketBuffer, n |-> 0, err |-> "none"]

NoRecord == [rec |-> NilRecord, b |-> NewBytePacketBuffer, err |-> "none"]

InitRecord ==
    /\ qn = Idle /\ lay = Idle
    /\ packet = Idle /\ wire = Idle /\ wres = Idle /\ dec = Idle
    /\ stack = Idle /\ sent = Idle /\ outcome = Idle /\ failure = Idle
    /\ nsin = Idle /\ nsout = Idle
    /\ srv = Idle /\ sock = Idle
    /\ \E r \in RecordInputs : \E at \in RecordStarts : rin = [rec |-> r, start |-> at]
    /\ enc = NoEncode
    /\ rdec = NoRecord
    /\ renc = NoEncode

\* WriteDnsRecord(rec, buffer) with the buffer's cursor at start.
EncodeRecord ==
    /\ enc.err = "none"
    /\ \E r \in {WriteDnsRecord(rin.rec, [Buf |-> ZeroBuf, Pos |-> rin.start])} :
          enc' = r
    /\ UNCHANGED <<rin, rdec, renc, qnameVars, codecVars, resolverVars, nsVars, serverVars>>

\* ReadDnsRecord(buffer) on the bytes written, the cursor back at start.
DecodeRecord ==
    /\ enc.err = Nil
    /\ rdec.err = "none"
    /\ \E r \in {ReadDnsRecord([enc.b EXCEPT !.Pos = rin.start])} : rdec' = r
    /\ UNCHANGED <<rin, enc, renc, qnameVars, codecVars, resolverVars, nsVars, serverVars>>

\* WriteDnsRecord on the record that was read, at the same cursor.
ReEncodeRecord ==
    /\ rdec.err = Nil
    /\ renc.err = "none"
    /\ \E r \in {WriteDnsRecord(rdec.rec, [Buf |-> ZeroBuf, Pos |-> rin.start])} :
          renc' = r
    /\ UNCHANGED <<rin, enc, rdec, qnameVars, codecVars, resolverVars, nsVars, serverVars>>

NextRecord ==
    \/ EncodeRecord
    \/ DecodeRecord
    \/ ReEncodeRecord

SpecRecord == InitRecord /\ [][NextRecord]_vars

-----------------------------------------------------------------------------
(* Properties of the codec of one record, stated over SpecRecord. *)

\* Where RFC 1035 puts the resource-data length of a record written at start.
RdLenPos(r, start) == start + NameSize(r.Domain) + 8

U16At(buf, pos) == buf[pos] * 256 + buf[pos + 1]

HasRoom == rin.start + RecordSize(rin.rec) <= BufSize

\* C11: an NS, CNAME or MX record encoded with enough room has, in its
\* resource-data-length field, the number of bytes written after the field:
\* the encoded host, and 2 bytes more for MX; 17 for host ns1.example.com.
C11_LengthPatched ==
    (enc.err # "none" /\ rin.rec.kind \in {"NS", "CNAME", "MX"} /\ HasRoom) =>
        /\ enc.err = Nil
        /\ U16At(enc.b.Buf, RdLenPos(rin.rec, rin.start))
              = enc.b.Pos - (RdLenPos(rin.rec, rin.start) + 2)
        /\ U16At(enc.b.Buf, RdLenPos(rin.rec, rin.start))
              = NameSize(rin.rec.Host) + (IF rin.rec.kind = "MX" THEN 2 ELSE 0)
        /\ (rin.rec.kind = "NS" /\ rin.rec.Host = Ns1ExampleCom) =>
              U16At(enc.b.Buf, RdLenPos(rin.rec, rin.start)) = 17

\* The NS record with host ns1.example.com, encoded at 478 where it just
\* fits, carries 17 in its length field.
C11_Witness ==
    /\ enc.err = Nil
    /\ rin.rec.kind = "NS" /\ rin.rec.Host = Ns1ExampleCom /\ rin.start = 478
    /\ U16At(enc.b.Buf, 489) = 17

-----------------------------------------------------------------------------
(* The nameserver queries of a reply: getNs, GetResolvedNs and             *)
(* GetUnresolvedNS applied to a packet's authority and additional sections.*)

MaxAuth == 2
MaxRes == 1

Com == <<99, 111, 109>>
ExampleCom == <<101, 120, 97, 109, 112, 108, 101, 46, 99, 111, 109>>
Comx == <<99, 111, 109, 120>>

AuthorityPool ==
    { NSRec(Com, HostB), NSRec(Com, HostC), NSRec(ExampleCom, HostB),
      NSRec(NameOrg, HostC), ARec(Com, AddrOther) }

ResourcePool ==
    { ARec(HostB, AddrGlue), ARec(HostC, AddrOther), NSRec(Com, HostB) }

SeqsUpTo(pool, n) == UNION { [1..k -> pool] : k \in 0..n }

Telecom == <<116, 101, 108, 101, 99, 111, 109>>

QueryNames == {Com, ExampleCom, Comx, Telecom, NameOrg}

\* called holds the names of the queries made so far.
NoNs == [called |-> {}, ns |-> <<>>, resolved |-> NilIP, unresolved |-> <<>>]

InitNs ==
    /\ qn = Idle /\ lay = Idle
    /\ packet = Idle /\ wire = Idle /\ wres = Idle /\ dec = Idle
    /\ stack = Idle /\ sent = Idle /\ outcome = Idle /\ failure = Idle
    /\ rin = Idle /\ enc = Idle /\ rdec = Idle /\ renc = Idle
    /\ srv = Idle /\ sock = Idle
    /\ \E auth \in SeqsUpTo(AuthorityPool, MaxAuth) :
       \E res \in SeqsUpTo(ResourcePool, MaxRes) :
       \E qname \in QueryNames :
          nsin = [p |-> [NewDnsPacket EXCEPT !.Authorities = auth,
                                             !.Resources = res],
                  qname |-> qname]
    /\ nsout = NoNs

CallGetNs ==
    /\ "getNs" \notin nsout.called
    /\ nsout' = [nsout EXCEPT !.called = @ \cup {"getNs"},
                              !.ns = getNs(nsin.p, nsin.qname)]
    /\ UNCHANGED <<nsin, qnameVars, codecVars, resolverVars, recordVars, serverVars>>

CallGetResolvedNs ==
    /\ "GetResolvedNs" \notin nsout.called
    /\ nsout' = [nsout EXCEPT !.called = @ \cup {"GetResolvedNs"},
                              !.resolved = GetResolvedNs(nsin.p, nsin.qname)]
    /\ UNCHANGED <<nsin, qnameVars, codecVars, resolverVars, recordVars, serverVars>>

CallGetUnresolvedNS ==
    /\ "GetUnresolvedNS" \notin nsout.called
    /\ nsout' = [nsout EXCEPT !.called = @ \cup {"GetUnresolvedNS"},
                              !.unresolved = GetUnresolvedNS(nsin.p, nsin.qname)]
    /\ UNCHANGED <<nsin, qnameVars, codecVars, resolverVars, recordVars, serverVars>>

NextNs ==
    \/ CallGetNs
    \/ CallGetResolvedNs
    \/ CallGetUnresolvedNS

SpecNs == InitNs /\ [][NextNs]_vars

-----------------------------------------------------------------------------
(* Properties of the nameserver queries, stated over SpecNs. *)

\* domain is one of the suffixes of qname, the empty one included.
IsSuffixOf(domain, qname) ==
    \E k \in 0..Len(qname) : SubSeq(qname, k + 1, Len(qname)) = domain

\* The indexes of the authority NS records whose domain is a suffix of qname.
MatchingNs(p, qname) ==
    { i \in DOMAIN p.Authorities :
        /\ p.Authorities[i].kind = "NS"
        /\ IsSuffixOf(p.Authorities[i].Domain, qname) }

\* The j-th smallest member of a set of indexes.
NthOf(S, j) == CHOOSE i \in S : Cardinality({ m \in S : m < i }) = j - 1

\* C12: getNs returns, in authority-section order, exactly the authority NS
\* records whose domain is a suffix of qname; an NS record for "com" is
\* returned for "example.com" and "com" and not for "comx".
C12_GetNsSuffixMatches ==
    "getNs" \in nsout.called =>
        /\ Len(nsout.ns) = Cardinality(MatchingNs(nsin.p, nsin.qname))
        /\ \A j \in 1..Len(nsout.ns) :
              nsout.ns[j] = nsin.p.Authorities[NthOf(MatchingNs(nsin.p, nsin.qname), j)]
        /\ \A i \in DOMAIN nsin.p.Authorities :
              (nsin.p.Authorities[i].kind = "NS" /\ nsin.p.Authorities[i].Domain = Com) =>
                 /\ nsin.qname \in {Com, ExampleCom} =>
                       \E j \in DOMAIN nsout.ns : nsout.ns[j] = nsin.p.Authorities[i]
                 /\ nsin.qname = Comx => nsout.ns = <<>>

\* getNs was asked for "example.com" on authorities that hold an NS record
\* for "example.com" and then one for "com", and returned both in that order.
C12_Witness ==
    /\ "getNs" \in nsout.called
    /\ nsin.qname = ExampleCom
    /\ nsin.p.Authorities = <<NSRec(ExampleCom, HostB), NSRec(Com, HostC)>>
    /\ nsout.ns = <<NSRec(ExampleCom, HostB), NSRec(Com, HostC)>>

\* The additional section holds an A record whose domain is this host.
HasAddress(p, host) ==
    \E k \in DOMAIN p.Resources :
        p.Resources[k].kind = "A" /\ p.Resources[k].Domain = host

\* The matching nameservers that have no address in the additional section.
UnresolvedNs(p, qname) ==
    { i \in MatchingNs(p, qname) : ~HasAddress(p, p.Authorities[i].Host) }

\* C13: GetUnresolvedNS returns the host of the first matching NS record
\* that has no A record for its host in the additional section, skipping the
\* matching nameservers that have one, and returns nothing when all have one.
C13_UnresolvedSkipsResolved ==
    "GetUnresolvedNS" \in nsout.called =>
        nsout.unresolved =
            IF UnresolvedNs(nsin.p, nsin.qname) = {} THEN <<>>
            ELSE nsin.p.Authorities[NthOf(UnresolvedNs(nsin.p, nsin.qname), 1)].Host

-----------------------------------------------------------------------------
(* Properties of the nested resolutions, stated over SpecResolver. *)

\* C14: the recursive fallback has bounded depth: the number of nested
\* resolver invocations active at the same time stays under a fixed bound
\* whatever the nameservers reply.  MaxDepth is the deepest nesting the
\* exploration admits; the program itself keeps no depth counter.
C14_DepthBounded == Len(stack) < MaxDepth

\* The address of the first A record among the answers of a reply.
FirstAnswerAddr(resp) ==
    resp.Answers[NthOf({ i \in DOMAIN resp.Answers : resp.Answers[i].kind = "A" }, 1)].Addr

HasAnswerAddr(resp) == \E i \in DOMAIN resp.Answers : resp.Answers[i].kind = "A"

\* The hosts of the authority NS records of a reply that match qname.
MatchingHosts(resp, qname) ==
    { resp.Authorities[i].Host : i \in MatchingNs(resp, qname) }

\* The step in which a call receives a non-terminal reply without glue.
NoGlueStep ==
    /\ Len(sent') = Len(sent) + 1
    /\ failure' = failure
    /\ stack'[Len(stack)].got
    /\ ~TerminalReply(stack'[Len(stack)].response)
    /\ GlueAddrs(stack'[Len(stack)].response, Top.qname) = {}

\* The step in which a nested call returns to its caller without an error.
NestedReturnStep ==
    /\ Len(stack) >= 2
    /\ Len(stack') = Len(stack) - 1
    /\ Top.ret.err = Nil

-----------------------------------------------------------------------------
(* Properties of the jump limit and of the cursor, stated over SpecQname. *)

\* C17: decoding a name succeeds when it follows at most 5 compression
\* pointers before the terminating zero label and fails with the jump-limit
\* error when it would take more than 5 jumps; the limit is exactly 5.
C17_JumpLimitIsFive ==
    /\ (lay.kind = "chain" /\ qn.status # "loop") =>
          qn.status = (IF lay.jumps <= 5 THEN Nil ELSE ErrJumps)
    /\ qn.status = Nil => qn.jumpsPerformed <= 5
    /\ qn.status = ErrJumps => qn.jumpsPerformed = 6

\* A name that takes exactly 5 jumps has been decoded.
C17_Witness ==
    /\ lay.kind = "chain" /\ lay.jumps = 5
    /\ qn.status = Nil /\ qn.jumpsPerformed = 5

\* The end of the bytes a name occupies where it starts: past its zero byte,
\* or past its first pointer; -1 when they run off the buffer.
RECURSIVE InPlaceEnd(_, _)
InPlaceEnd(buf, pos) ==
    IF pos >= BufSize THEN -1
    ELSE IF buf[pos] = 0 THEN pos + 1
    ELSE IF buf[pos] >= 192 THEN pos + 2
    ELSE InPlaceEnd(buf, pos + 1 + buf[pos])

\* C18: after readQname succeeds the buffer's cursor is just past the
\* name's in-place bytes: past the terminating zero byte when no pointer was
\* met, and 2 bytes past the first pointer otherwise, wherever the jumps
\* went and however many there were.
C18_CursorPastInPlaceBytes ==
    qn.status = Nil =>
        /\ qn.b.Pos = InPlaceEnd(qn.b.Buf, lay.start)
        /\ qn.jumped = (qn.jumpsPerformed > 0)
        /\ qn.jumped => qn.b.Buf[qn.b.Pos - 2] >= 192
        /\ ~qn.jumped => (qn.b.Buf[qn.b.Pos - 1] = 0 /\ qn.b.Pos = qn.pos)

\* A name of labels and a pointer was decoded through 3 jumps, and the
\* cursor is 2 bytes past the first pointer.
C18_Witness ==
    /\ qn.status = Nil /\ qn.jumpsPerformed = 3
    /\ qn.b.Pos > lay.start + 2
    /\ qn.b.Buf[qn.b.Pos - 2] >= 192

-----------------------------------------------------------------------------
(* Properties of DnsPacketFromBuffer, stated over Spec. *)

SectionLens(p) ==
    <<Len(p.Questions), Len(p.Answers), Len(p.Authorities), Len(p.Resources)>>

SectionCounts(p) ==
    <<p.Header.Questions, p.Header.answers, p.Header.authoritativeEntries,
      p.Header.resourceEntries>>

\* Section k is where decoding stopped: the sections before it are complete,
\* it is short of its count, and nothing of the sections after it was decoded.
StoppedIn(p, k) ==
    /\ \A i \in 1..(k - 1) : SectionLens(p)[i] = SectionCounts(p)[i]
    /\ SectionLens(p)[k] < SectionCounts(p)[k]
    /\ \A i \in (k + 1)..4 : SectionLens(p)[i] = 0

\* The header of a 512-byte buffer read at cursor 0 always decodes, so a
\* failure is a failure in one of the four sections.
DecodesInOrder ==
    dec.err # "none" =>
        IF dec.err = Nil
        THEN SectionLens(dec.p) = SectionCounts(dec.p)
        ELSE /\ dec.err \in {ErrEndOfBuffer, ErrJumps, ErrLabel, ErrUnknownRecord}
             /\ \E k \in 1..4 : StoppedIn(dec.p, k)

\* C19 as stated: DnsPacketFromBuffer decodes the header, then as many
\* questions, answers, authorities and additionals as the header counts, in
\* that order; at the first failing sub-decode it stops and fails with that
\* error, and no partially decoded message is handed back.
C19_NoPartialMessage ==
    /\ DecodesInOrder
    /\ dec.err \notin {"none", Nil} => dec.p = NewDnsPacket

\* C19 amended: the same order, counts and stop at the first failure; on
\* failure the message decoded so far, its header included, is returned
\* next to the error.
C19_PartialMessageReturned ==
    /\ DecodesInOrder
    /\ dec.err \notin {"none", Nil} =>
          /\ dec.p.Header # NewDnsHeader
          /\ SectionCounts(dec.p) # <<0, 0, 0, 0>>

\* Decoding failed in the answer section after one question and one answer
\* were decoded, and both are in what was returned with the error.
C19_Witness ==
    /\ dec.err \notin {"none", Nil}
    /\ StoppedIn(dec.p, 2)
    /\ Len(dec.p.Questions) = 1 /\ Len(dec.p.Answers) = 1

-----------------------------------------------------------------------------
(* Properties of decoding and re-encoding one record, stated over          *)
(* SpecRecord.                                                             *)

\* C15: the record-type tag survives decode and re-encode: a CNAME record
\* (type code 5) read by ReadDnsRecord and written by WriteDnsRecord is
\* emitted with type code 5 and the same domain, host and TTL, not as an NS
\* record (type code 2).
C15_CnameTagSurvives ==
    (rin.rec.kind = "CNAME" /\ renc.err # "none") =>
        /\ renc.err = Nil
        /\ U16At(enc.b.Buf, rin.start + NameSize(rin.rec.Domain)) = 5
        /\ U16At(renc.b.Buf, rin.start + NameSize(rin.rec.Domain)) = 5
        /\ rdec.rec.kind = "CNAME"
        /\ rdec.rec.Domain = rin.rec.Domain
        /\ rdec.rec.Host = rin.rec.Host
        /\ rdec.rec.TTL = rin.rec.TTL

\* C20: encoding an AAAA record writes the resource-data length 16 and then
\* exactly 16 bytes, the 16 octets of the record's address in order: as many
\* bytes follow the length field as it declares.
C20_AaaaSixteenOctets ==
    (rin.rec.kind = "AAAA" /\ enc.err # "none" /\ rin.start < 256) =>
        /\ enc.err = Nil
        /\ U16At(enc.b.Buf, RdLenPos(rin.rec, rin.start)) = 16
        /\ enc.b.Pos - (RdLenPos(rin.rec, rin.start) + 2) = 16
        /\ Len(rin.rec.Addr) = 16 =>
              \A i \in 1..16 :
                 enc.b.Buf[RdLenPos(rin.rec, rin.start) + 1 + i] = rin.rec.Addr[i]

-----------------------------------------------------------------------------
(* Properties of records of unknown type, stated over Spec.  A datagram    *)
(* received is a header, at most one question of 7 bytes, and records      *)
(* whose name is <<1, 97, 0>> or a pointer to the question's name.         *)

RecvRecStart == 12 + 7 * wire.Buf[5]

RecvNameLen == IF wire.Buf[RecvRecStart] >= 192 THEN 2 ELSE 3

RecvType == U16At(wire.Buf, RecvRecStart + RecvNameLen)

RecvDataLen == U16At(wire.Buf, RecvRecStart + RecvNameLen + 8)

\* The first record's name decodes: it is written out, or it points at the
\* name of a question that is there.
RecvNameDecodes == RecvNameLen = 3 \/ wire.Buf[5] = 1

\* C21: decoding a record whose type code is none of 1, 2, 5, 15, 28 does
\* not fail because of its type: the cursor moves by exactly the declared
\* data length past the length field, and the record read is an Unknown
\* record with the domain, the raw type code, the declared length and the TTL.
C21_UnknownRecordSkipped ==
    (wres = "received" /\ dec.err # "none" /\ RecvNameDecodes
        /\ RecvType \notin {1, 2, 5, 15, 28}) =>
        /\ Len(dec.p.Answers) >= 1
        /\ dec.p.Answers[1] = [kind |-> "Unknown", Domain |-> <<97>>,
                               QType |-> RecvType, DataLen |-> RecvDataLen,
                               TTL |-> TTL300]
        /\ wire.Buf[7] = 1 =>
              /\ dec.err = Nil
              /\ dec.Pos = RecvRecStart + RecvNameLen + 10 + RecvDataLen

\* One record of type 99 with 16 bytes of data after a question was decoded
\* and the cursor stands 16 bytes past the length field.
C21_Witness ==
    /\ wres = "received" /\ dec.err = Nil
    /\ wire.Buf[5] = 1 /\ wire.Buf[7] = 1
    /\ RecvType = 99 /\ RecvDataLen = 16 /\ RecvNameLen = 3
    /\ dec.Pos = 48
    /\ dec.p.Answers[1].kind = "Unknown"

\* The records of a list that WriteDnsRecord puts on the wire.
OnWire(list) == SelectSeq(list, LAMBDA r : r.kind # "Unknown")

OnWireSize(p) ==
    12 + SumSizes(p.Questions, QuestionSize, 1)
       + SumSizes(OnWire(AllRecords(p)), RecordSize, 1)

\* The record counts the header on the wire announces, added up.
WireCounts == U16At(wire.Buf, 6) + U16At(wire.Buf, 8) + U16At(wire.Buf, 10)

HasUnknown(p) == \E i \in DOMAIN AllRecords(p) : AllRecords(p)[i].kind = "Unknown"

\* C22: encoding an Unknown record is a no-op that reports success:
\* WriteDnsRecord leaves bytes and cursor as they are and returns 0 and no
\* error, while Write counts the record in the header, so the header on the
\* wire announces more records than the wire holds.
C22_UnknownCountedNotWritten ==
    (Written /\ HasUnknown(packet) /\ ~HasLongLabel(packet)
        /\ OnWireSize(packet) <= BufSize) =>
        /\ wres = Nil
        /\ \A i \in DOMAIN AllRecords(packet) :
              AllRecords(packet)[i].kind = "Unknown" =>
                 WriteDnsRecord(AllRecords(packet)[i], wire)
                    = [b |-> wire, n |-> 0, err |-> Nil]
        /\ wire.Pos = OnWireSize(packet)
        /\ \A i \in wire.Pos..(BufSize - 1) : wire.Buf[i] = 0
        /\ WireCounts = Len(AllRecords(packet))
        /\ WireCounts > Len(OnWire(AllRecords(packet)))

\* An Unknown record and an A record were written as answers: the header
\* says 2 answers and the 29 bytes hold the header and the A record.
C22_Witness ==
    /\ wres = Nil
    /\ packet.Questions = <<>>
    /\ Len(packet.Answers) = 2
    /\ packet.Answers[1].kind = "Unknown" /\ packet.Answers[2].kind = "A"
    /\ wire.Buf[7] = 2 /\ wire.Pos = 29

-----------------------------------------------------------------------------
(* The server: main's loop around handleQuery, with recursiveLookup as the *)
(* stack of calls and lookup taken apart into its socket calls.  srv.pc is *)
(* "waiting" inside ReadFromUDP, "resolving" inside recursiveLookup and    *)
(* "exited" when the process has ended.  sock.open counts the sockets      *)
(* bound to port 43210 that are not closed; sock.phase is where the        *)
(* running lookup stands.                                                  *)

FORMERR == 1

MaxServerQueries == 3

RequestDatagrams ==
    { [id |-> 7, qd |-> 0, name |-> <<>>, qtype |-> 1],
      [id |-> 8, qd |-> 1, name |-> <<1, 97, 3, 99, 111, 109, 0>>, qtype |-> 1],
      [id |-> 9, qd |-> 1, name |-> <<192, 12>>, qtype |-> 1],
      [id |-> 10, qd |-> 1, name |-> <<64>> \o BadName \o <<0>>, qtype |-> 15] }

RequestBytes(d) ==
    U16Bytes(d.id) \o <<1, 0>> \o U16Bytes(d.qd) \o <<0, 0, 0, 0, 0, 0>>
        \o (IF d.qd = 1 THEN d.name \o U16Bytes(d.qtype) \o <<0, 1>> ELSE <<>>)

RequestBuffer(d) == [Buf |-> PutBytes(ZeroBuf, 0, RequestBytes(d)), Pos |-> 0]

\* What the upstream servers answer: an answer, a name error, a delegation
\* with glue, one without, a failure, and an answer of two records with
\* names of 191 bytes.
ServerReplies ==
    { [NewDnsPacket EXCEPT !.Header.Id = 6666, !.Header.Response = TRUE,
                           !.Header.Rescode = x.rc, !.Answers = x.an,
                           !.Authorities = x.ns, !.Resources = x.ar] :
        x \in { [rc |-> NOERROR, an |-> << ARec(NameCom, AddrAnswer) >>,
                 ns |-> <<>>, ar |-> <<>>],
                [rc |-> NXDOMAIN, an |-> <<>>, ns |-> <<>>, ar |-> <<>>],
                [rc |-> NOERROR, an |-> <<>>, ns |-> << NSRec(<<>>, HostB) >>,
                 ar |-> << ARec(HostB, AddrGlue) >>],
                [rc |-> NOERROR, an |-> <<>>, ns |-> << NSRec(<<>>, HostB) >>,
                 ar |-> << ARec(HostC, AddrOther) >>],
                [rc |-> SERVFAIL, an |-> <<>>, ns |-> <<>>, ar |-> <<>>],
                [rc |-> NOERROR,
                 an |-> << NSRec(LongName, LongName), NSRec(LongName, LongName) >>,
                 ns |-> <<>>, ar |-> <<>>] } }

NoLast ==
    [kind |-> "none", request |-> NewDnsPacket, reply |-> NewDnsPacket,
     err |-> "none", lookups |-> 0]

Waiting(last) == [pc |-> "waiting", request |-> NewDnsPacket, last |-> last]

Exited(request) == [pc |-> "exited", request |-> request, last |-> NoLast]

SocketClosed == [open |-> 0, phase |-> "closed"]

\* defer socket.Close() without its effect: the socket stays open.
LeakSocket(open) == open

\* defer socket.Close(), run when lookup returns.
CloseSocket(open) == open - 1

\* packet := dns.NewDnsPacket() and the four header assignments.
NewReply(request) ==
    [NewDnsPacket EXCEPT !.Header.Id = request.Header.Id,
                         !.Header.RecursionDesired = TRUE,
                         !.Header.RecursionAvailable = TRUE,
                         !.Header.Response = TRUE]

\* The else branch of len(request.Questions) > 0.
NoQuestionReply(request) ==
    [NewReply(request) EXCEPT !.Header.Rescode = SERVFAIL]

\* The branch after recursiveLookup returned ret.
ResolvedReply(request, ret) ==
    IF ret.err = Nil
    THEN [NewReply(request) EXCEPT !.Questions = << request.Questions[1] >>,
                                   !.Header.Rescode = ret.resp.Header.Rescode,
                                   !.Answers = ret.resp.Answers,
                                   !.Authorities = ret.resp.Authorities,
                                   !.Resources = ret.resp.Resources]
    ELSE [NewReply(request) EXCEPT !.Header.Rescode = SERVFAIL]

\* The end of handleQuery: Write, GetRange, WriteToUDP, and main's loop
\* going round whatever handleQuery returned.  A panic ends the process.
SendReply(request, pk, lookups, sendOk) ==
    Bind(PacketWrite(pk, NewBytePacketBuffer), LAMBDA w :
    IF w.err = Panic THEN Exited(request)
    ELSE IF w.err # Nil
    THEN Waiting([kind |-> "error", request |-> request, reply |-> w.p,
                  err |-> w.err, lookups |-> lookups])
    ELSE Bind(GetRange(w.b, 0, w.b.Pos), LAMBDA data :
         IF data.err # Nil
         THEN Waiting([kind |-> "error", request |-> request, reply |-> w.p,
                       err |-> data.err, lookups |-> lookups])
         ELSE IF ~sendOk
         THEN Waiting([kind |-> "error", request |-> request, reply |-> w.p,
                       err |-> "send", lookups |-> lookups])
         ELSE Waiting([kind |-> "replied", request |-> request, reply |-> w.p,
                       err |-> Nil, lookups |-> lookups])))

InitServer ==
    /\ qn = Idle /\ lay = Idle
    /\ packet = Idle /\ wire = Idle /\ wres = Idle /\ dec = Idle
    /\ rin = Idle /\ enc = Idle /\ rdec = Idle /\ renc = Idle
    /\ nsin = Idle /\ nsout = Idle
    /\ stack = <<>>
    /\ sent = <<>>
    /\ outcome = NoOutcome
    /\ failure = "none"
    /\ srv = Waiting(NoLast)
    /\ sock = SocketClosed

\* ReadFromUDP fails and handleQuery returns the error.
RequestReadError ==
    /\ srv.pc = "waiting"
    /\ srv' = Waiting([NoLast EXCEPT !.kind = "error", !.err = "read"])
    /\ sent' = <<>>
    /\ UNCHANGED <<stack, outcome, failure, sock, qnameVars, codecVars, recordVars, nsVars>>

\* handleQuery from the datagram to the call of recursiveLookup, or to its
\* return when there is nothing to look up.
HandleRequest ==
    /\ srv.pc = "waiting"
    /\ sent' = <<>>
    /\ \E d \in RequestDatagrams : \E sendOk \in BOOLEAN :
       \E r \in {DnsPacketFromBuffer(RequestBuffer(d))} :
          IF r.err # Nil
          THEN /\ srv' = Waiting([NoLast EXCEPT !.kind = "error", !.err = r.err])
               /\ stack' = <<>>
          ELSE IF Len(r.p.Questions) > 0
          THEN /\ srv' = [pc |-> "resolving", request |-> r.p, last |-> NoLast]
               /\ stack' = << NewFrame(r.p.Questions[1].Name,
                                       QueryTypeFromNum(r.p.Questions[1].Qtype)) >>
          ELSE /\ srv' = SendReply(r.p, NoQuestionReply(r.p), 0, sendOk)
               /\ stack' = <<>>
    /\ UNCHANGED <<outcome, failure, sock, qnameVars, codecVars, recordVars, nsVars>>

CanCall ==
    /\ srv.pc = "resolving"
    /\ stack # <<>>
    /\ Top.pc = "lookup"

\* net.ListenUDP on port 43210: it fails when the port is held, by this
\* process or by another, and lookup then ends the process.
SocketBind ==
    /\ CanCall
    /\ sock.phase = "closed"
    /\ Len(sent) < MaxServerQueries
    /\ \E ok \in BOOLEAN :
          IF ok /\ sock.open = 0
          THEN /\ sock' = [open |-> sock.open + 1, phase |-> "bound"]
               /\ UNCHANGED <<srv, failure>>
          ELSE /\ failure' = IF sock.open > 0 THEN "collision" ELSE "bind"
               /\ srv' = Exited(srv.request)
               /\ UNCHANGED sock
    /\ UNCHANGED <<stack, sent, outcome, qnameVars, codecVars, recordVars, nsVars>>

\* socket.WriteTo of the query.
SocketSend ==
    /\ CanCall
    /\ sock.phase = "bound"
    /\ \E ok \in BOOLEAN :
          IF ok
          THEN /\ sent' = Append(sent, Query(Top, Len(stack)))
               /\ sock' = [sock EXCEPT !.phase = "sent"]
               /\ UNCHANGED <<srv, failure>>
          ELSE /\ failure' = "send"
               /\ srv' = Exited(srv.request)
               /\ UNCHANGED <<sent, sock>>
    /\ UNCHANGED <<stack, outcome, qnameVars, codecVars, recordVars, nsVars>>

\* socket.ReadFrom fails.
SocketReceiveError ==
    /\ CanCall
    /\ sock.phase = "sent"
    /\ failure' = "receive"
    /\ srv' = Exited(srv.request)
    /\ UNCHANGED <<stack, sent, outcome, sock, qnameVars, codecVars, recordVars, nsVars>>

\* socket.ReadFrom, DnsPacketFromBuffer and lookup's return, which closes
\* the socket; then the iteration of recursiveLookup up to its next call.
SocketReceive ==
    /\ CanCall
    /\ sock.phase = "sent"
    /\ sock' = [open |-> CloseSocket(sock.open), phase |-> "closed"]
    /\ \/ \E r \in ServerReplies : \E f \in {AfterLookup(Top, r)} :
             IF f.pc = "await"
             THEN /\ Len(stack) < MaxDepth
                  /\ stack' = Append(SetTop(f),
                                     NewFrame(GetUnresolvedNS(r, f.qname), "A"))
             ELSE stack' = SetTop(f)
       \/ stack' = SetTop(Return([Top EXCEPT !.response = NewDnsPacket,
                                             !.got = FALSE],
                                 FALSE, NewDnsPacket, ErrEndOfBuffer))
    /\ UNCHANGED <<srv, sent, outcome, failure, qnameVars, codecVars, recordVars, nsVars>>

\* A nested recursiveLookup returns into the iteration that called it.
NestedReturn ==
    /\ srv.pc = "resolving"
    /\ Len(stack) >= 2
    /\ Top.pc = "done"
    /\ stack' = Append(SubSeq(stack, 1, Len(stack) - 2),
                       AfterNested(stack[Len(stack) - 1], Top.ret))
    /\ UNCHANGED <<srv, sent, outcome, failure, sock, qnameVars, codecVars, recordVars, nsVars>>

\* The outermost recursiveLookup returns to handleQuery, which builds and
\* sends the reply.
HandleResult ==
    /\ srv.pc = "resolving"
    /\ Len(stack) = 1
    /\ Top.pc = "done"
    /\ \E sendOk \in BOOLEAN :
       \E r \in {SendReply(srv.request, ResolvedReply(srv.request, Top.ret),
                           Len(sent), sendOk)} :
          /\ srv' = r
          /\ failure' = IF r.pc = "exited" THEN "panic" ELSE failure
    /\ stack' = <<>>
    /\ UNCHANGED <<sent, outcome, sock, qnameVars, codecVars, recordVars, nsVars>>

NextServer ==
    \/ RequestReadError
    \/ HandleRequest
    \/ SocketBind
    \/ SocketSend
    \/ SocketReceiveError
    \/ SocketReceive
    \/ NestedReturn
    \/ HandleResult

SpecServer == InitServer /\ [][NextServer]_vars

-----------------------------------------------------------------------------
(* Properties of the server, stated over SpecServer. *)

\* C23: a request that decodes and holds no question is answered with the
\* result code FORMERR, the request's transaction id and the response flag
\* set, and no lookup is made for it.
C23_NoQuestionFormErr ==
    (srv.last.kind = "replied" /\ srv.last.request.Questions = <<>>) =>
        /\ srv.last.reply.Header.Rescode = FORMERR
        /\ srv.last.reply.Header.Id = srv.last.request.Header.Id
        /\ srv.last.reply.Header.Response
        /\ srv.last.lookups = 0

\* C24: the server keeps serving: no failed upstream send or receive and no
\* reply too large to encode ends the process.
C24_KeepsServing ==
    failure \in {"send", "receive", "panic"} => srv.pc # "exited"

\* C25: at most one outbound socket is open at any moment, and only inside
\* a lookup; a bind never meets a socket this process still holds; a query
\* is sent on a socket bound for it, and a nested resolution is entered and
\* left with no socket open.
C25_OneOutboundSocket ==
    /\ [](/\ sock.open \in {0, 1}
          /\ failure # "collision"
          /\ (sock.open = 1) = (sock.phase \in {"bound", "sent"})
          /\ sock.open = 1 => (stack # <<>> /\ Top.pc = "lookup"))
    /\ [][ /\ Len(stack') # Len(stack) => sock'.open = 0
           /\ Len(sent') = Len(sent) + 1 =>
                 (sock.open = 1 /\ sock.phase = "bound" /\ sock'.open = 1)
           /\ (sock'.open = 1 /\ sock.phase = "closed") => sock.open = 0
       ]_vars

\* The lookup of a nested resolution has sent the second query and holds
\* the one open socket.
C25_Witness ==
    /\ Len(stack) = 2
    /\ Len(sent) = 2 /\ sent[2].depth = 2
    /\ sock = [open |-> 1, phase |-> "sent"]

-----------------------------------------------------------------------------
(* Properties of range reads, stated over SpecQname. *)

\* The read that ended readQname with the end-of-buffer error reached
\* outside the buffer: the byte at the local cursor, the second byte of a
\* pointer, or the bytes of the label whose length byte the cursor has
\* just passed.
FailedReadOutside ==
    \/ qn.pos >= BufSize
    \/ qn.b.Buf[qn.pos] >= 192 /\ qn.pos + 1 >= BufSize
    \/ /\ qn.pos >= 1
       /\ qn.b.Buf[qn.pos - 1] \in 1..191
       /\ qn.pos + qn.b.Buf[qn.pos - 1] > BufSize

\* C26: a range read succeeds whenever the range lies inside the buffer
\* (start + length <= 512), so that a label that ends at the last byte of
\* the buffer is read: readQname fails with the end-of-buffer error only on
\* a read that reaches outside the buffer.
C26_RangeInsideBufferIsRead ==
    qn.status = ErrEndOfBuffer => FailedReadOutside

-----------------------------------------------------------------------------
(* Properties of names written and read back, stated over SpecRecord. *)

\* C27: name encode and decode are symmetric: a lower-case name that
\* writeQname accepted, the empty name and a name ending in a dot included,
\* is read back by readQname as the same name, and the read consumes
\* exactly the bytes that were written.  The host of an NS, CNAME or MX
\* record is the last thing written and read.
C27_NameRoundTrip ==
    (rdec.err # "none" /\ rin.rec.kind \in {"NS", "CNAME", "MX"}) =>
        /\ rdec.err = Nil
        /\ rdec.rec.Domain = rin.rec.Domain
        /\ rdec.rec.Host = rin.rec.Host
        /\ rdec.b.Pos = enc.b.Pos

-----------------------------------------------------------------------------
(* Properties of delegation matching, stated over SpecNs. *)

\* domain is qname or an ancestor of qname in the name hierarchy.
CoversName(domain, qname) ==
    \/ domain = <<>>
    \/ domain = qname
    \/ IsSuffixOf(<<46>> \o domain, qname)

\* C28: delegation matching respects label boundaries: getNs, and with it
\* GetResolvedNs and GetUnresolvedNS, use only authority NS records whose
\* domain is qname or an ancestor of it; an NS record for "com" is not used
\* for "telecom".
C28_LabelBoundaries ==
    /\ "getNs" \in nsout.called =>
          \A j \in DOMAIN nsout.ns : CoversName(nsout.ns[j].Domain, nsin.qname)
    /\ ("GetUnresolvedNS" \in nsout.called /\ nsout.unresolved # <<>>) =>
          \E i \in DOMAIN nsin.p.Authorities :
             /\ nsin.p.Authorities[i].kind = "NS"
             /\ nsin.p.Authorities[i].Host = nsout.unresolved
             /\ CoversName(nsin.p.Authorities[i].Domain, nsin.qname)
    /\ ("GetResolvedNs" \in nsout.called /\ nsout.resolved # NilIP) =>
          \E i \in DOMAIN nsin.p.Authorities :
             /\ nsin.p.Authorities[i].kind = "NS"
             /\ CoversName(nsin.p.Authorities[i].Domain, nsin.qname)
             /\ \E k \in DOMAIN nsin.p.Resources :
                   /\ nsin.p.Resources[k].kind = "A"
                   /\ nsin.p.Resources[k].Domain = nsin.p.Authorities[i].Host
                   /\ nsin.p.Resources[k].Addr = nsout.resolved

=============================================================================
